---- MODULE Spec2Model ----
(***************************************************************************)
(* Model of the static Signal class of assets/src/signal2/qt-signal2.ts    *)
(* (first class, lines 1-551): the registration store, the group index,    *)
(* the Connection handles and the emission engine with once, throttle,     *)
(* debounce and forwarding.                                                *)
(*                                                                         *)
(* JavaScript objects are modelled by reference: every slot object created *)
(* by addSlot lives in `heap` at the index that is its reference, and the  *)
(* store, the snapshots taken by emit and the timer closures hold these    *)
(* references.  A running emit is a frame on `stack`; a callback that is   *)
(* running may call the API again, which is how re-entrant emission and    *)
(* mutation during emission arise.  The clock advances only between tasks, *)
(* and the timer host runs a due timer before any later task.              *)
(***************************************************************************)
EXTENDS Integers, Sequences, FiniteSets, TLC

(* ----------------------------- bounds ---------------------------------- *)
\* number of connect / forwardTo calls in a behaviour
MaxSlots == 3
\* number of emit calls made by application code in a behaviour
MaxEmits == 2
\* depth of nested emit calls made from inside running callbacks
MaxDepth == 2
\* last clock value
MaxClock == 4
\* connect calls and emit calls in the group specification
MaxGroupSlots == 3
MaxGroupEmits == 1
\* connect calls and emit calls in the timed specification
MaxTimedSlots == 2
MaxTimedEmits == 3
\* connect / forwardTo calls and emit calls in the forwarding specification
MaxFwdSlots == 3
MaxFwdEmits == 2
\* connect calls and emit calls in the error specification
MaxErrSlots == 3
MaxErrEmits == 2
\* connect calls in the target specification
MaxTargetSlots == 3
\* connect calls and failing calls in the call specification
MaxCallSlots == 3
MaxThrows == 2
\* connect calls and emit calls in the reset specification
MaxResetSlots == 3
MaxResetEmits == 1
\* connect calls, emit calls and the last clock value in the cache specification
MaxCacheSlots == 2
MaxCacheEmits == 1
MaxCacheClock == 100
\* connect calls and emit calls in the queued specification
MaxQueuedSlots == 3
MaxQueuedEmits == 2
\* connect calls and emit calls in the debounce specification
MaxDebSlots == 2
MaxDebEmits == 3
\* connect calls and emit calls in the specification of debounce errors
MaxDebErrSlots == 2
MaxDebErrEmits == 2
\* connect calls and emit calls in the specification of forwarding with options
MaxFwdOptSlots == 3
MaxFwdOptEmits == 3
\* connect calls in the specification of the group map of part_004
MaxGroupMapSlots == 3
\* connect calls and emit calls in the specification of the simple class
MaxSimpleSlots == 3
MaxSimpleEmits == 2
\* connect calls and the last clock value in the lock-step specification
MaxLockSlots == 3
MaxLockClock == 100
\* connect calls, emit calls and stack frames in the cycle specification
MaxCycleSlots == 3
MaxCycleEmits == 2
MaxCycleDepth == 6
\* connect calls and emit calls in the demo specification
MaxDemoSlots == 3
MaxDemoEmits == 2
\* connect calls and emit calls in the demo specification with queued slots
MaxDemoQueuedSlots == 3
MaxDemoQueuedEmits == 2
\* connect calls and emit calls in the demo specification with targets
MaxDemoTargetSlots == 3
MaxDemoTargetEmits == 1
\* connect calls and emit calls in the per-instance specification
MaxInstSlots == 3
MaxInstEmits == 2
\* connect calls and emitAsync calls in the asynchronous specification
MaxAsyncSlots == 3
MaxAsyncCalls == 1
\* the window, in clock ticks, of the throttled and debounced connections
Window == 2

(* --------------------------- input domains ----------------------------- *)
Names == {"A", "B"}
Groups == {"g1", "g2"}
Args == {1, 2}
Transforms == {"none", "flip"}

\* JS undefined in a number-valued field
Undefined == -1
\* JS undefined / '' in the group field, and null in the target field
NoGroup == ""
NoTarget == ""
Targets == {NoTarget, "t"}
\* a target object that has no constructor property, as Object.create(null)
Bare == "bare"
\* a callback argument that is not a function
NotAFunction == ""
\* the callback name of the closure built by forwardTo
Forwarder == "forwarder"
\* CACHE_TTL
CACHE_TTL == 100

\* JS truthiness of a number-or-undefined value and of a string
TruthyNum(x) == x # Undefined /\ x # 0
TruthyStr(x) == x # ""

EmptyMap == [x \in {} |-> {}]
MapSet(m, k, v) == [x \in (DOMAIN m) \cup {k} |-> IF x = k THEN v ELSE m[x]]
MapDel(m, k) == [x \in (DOMAIN m) \ {k} |-> m[x]]
Last(s) == s[Len(s)]
Front(s) == SubSeq(s, 1, Len(s) - 1)
Range(s) == {s[i] : i \in 1..Len(s)}
\* mutant of Splice1: the element is removed and the survivors are rotated
Splice1_rotate(s, i) == SubSeq(s, i + 1, Len(s)) \o SubSeq(s, 1, i - 1)

\* mutant of Splice1: splice(i) without a count removes the rest of the array
Splice1_rest(s, i) == SubSeq(s, 1, i - 1)

\* Array.prototype.splice(i, 1)
Splice1(s, i) == SubSeq(s, 1, i - 1) \o SubSeq(s, i + 1, Len(s))

VARIABLES
    nextId,      \* _nextId, the slot id counter
    heap,        \* the slot objects ever created; a reference is an index
    signals,     \* Signal._signals : name -> [slots: Seq(ref), groups: group -> set of ids]
    globals,     \* Signal._globals : group -> set of [signalName, slotId]
    groupCache,  \* Signal._groupCache
    conns,       \* the Connection objects, conns[r] belongs to slot object r
    stack,       \* the running emit calls and timer callbacks, innermost last
    timers,      \* the pending timers of the timer host
    nextTimer,   \* the next timer handle of the timer host
    clock,       \* Date.now()
    emits,       \* history: number of emit calls made by application code
    reentered,   \* history: an emit was called while another call was running
    hist,        \* history: per slot object, what happened to it so far
    thrown,      \* history: number of errors that left the library, thrown to
                 \* the caller of an API call or to the timer host
    tasks,       \* the closures given to setTimeout(..., 0) that have not run yet,
                 \* in the order in which the timer host runs them
    calls,       \* the emitAsync calls made so far: their slot promises and
                 \* the promise they returned
    demoStore    \* the store of the static Signal of qt-signal-group-demo.ts when
                 \* it is driven by the same calls as the first class:
                 \* [signals, globalGroups : group -> identity -> set of ids,
                 \* groupCache]

vars == <<nextId, heap, signals, globals, groupCache, conns, stack, timers,
          nextTimer, clock, emits, reentered, hist, thrown, tasks, calls, demoStore>>

store == [signals |-> signals, globals |-> globals, groupCache |-> groupCache]

(* ------------------------- registration store -------------------------- *)

\* _getSignalData: creates the entry when it is missing
getSignalData(sigs, s) ==
    IF s \in DOMAIN sigs THEN sigs
    ELSE MapSet(sigs, s, [slots |-> <<>>, groups |-> EmptyMap])

\* _getGlobalGroupData
getGlobalGroupData(glob, g) ==
    IF g \in DOMAIN glob THEN glob ELSE MapSet(glob, g, {})

\* mutant of addToGlobalGroup: the group's set is replaced by the new pair
addToGlobalGroup_replace(glob, s, id, g) ==
    MapSet(glob, g, {[signalName |-> s, slotId |-> id]})

\* _addToGlobalGroup
addToGlobalGroup(glob, s, id, g) ==
    LET gl == getGlobalGroupData(glob, g)
    IN  MapSet(gl, g, gl[g] \cup {[signalName |-> s, slotId |-> id]})

\* _removeFromGlobalGroup
removeFromGlobalGroup(glob, s, id, g) ==
    IF g \notin DOMAIN glob THEN glob
    ELSE LET groupData == glob[g] \ {[signalName |-> s, slotId |-> id]}
         IN  IF groupData = {} THEN MapDel(glob, g)
             ELSE MapSet(glob, g, groupData)

\* _addToSignalGroup
addToSignalGroup(sigs, s, id, g) ==
    LET sg == getSignalData(sigs, s)
        old == IF g \in DOMAIN sg[s].groups THEN sg[s].groups[g] ELSE {}
    IN  MapSet(sg, s, [sg[s] EXCEPT !.groups = MapSet(@, g, old \cup {id})])

\* mutant of removeFromSignalGroup: a group whose last id was removed stays
\* in the map
removeFromSignalGroup_keepEmpty(sigs, s, id, g) ==
    LET sg == getSignalData(sigs, s)
    IN  IF g \notin DOMAIN sg[s].groups THEN sg
        ELSE MapSet(sg, s, [sg[s] EXCEPT !.groups = MapSet(@, g, sg[s].groups[g] \ {id})])

\* _removeFromSignalGroup
removeFromSignalGroup(sigs, s, id, g) ==
    LET sg == getSignalData(sigs, s)
    IN  IF g \notin DOMAIN sg[s].groups THEN sg
        ELSE LET groupSlots == sg[s].groups[g] \ {id}
             IN  IF groupSlots = {}
                 THEN MapSet(sg, s, [sg[s] EXCEPT !.groups = MapDel(@, g)])
                 ELSE MapSet(sg, s, [sg[s] EXCEPT !.groups = MapSet(@, g, groupSlots)])

\* _invalidateCache
invalidateCache == [defined |-> FALSE, groups |-> {}, lastUpdateTime |-> 0]

\* mutant of findIndex: slot.id = id, an assignment, is true of the first slot
findIndex_assign(hp, slots, id) == IF Len(slots) > 0 THEN 1 ELSE 0

\* slots.findIndex(slot => slot.id === id); 0 stands for -1
findIndex(hp, slots, id) ==
    IF \E i \in 1..Len(slots) : hp[slots[i]].id = id
    THEN CHOOSE i \in 1..Len(slots) :
            /\ hp[slots[i]].id = id
            /\ \A j \in 1..(i - 1) : hp[slots[j]].id # id
    ELSE 0

\* Signal.disconnectById
disconnectById(S, hp, s, id) ==
    LET sigs0 == getSignalData(S.signals, s)
        slotIndex == findIndex(hp, sigs0[s].slots, id)
    IN  IF slotIndex = 0 THEN [S EXCEPT !.signals = sigs0]
        ELSE
        LET slot == hp[sigs0[s].slots[slotIndex]]
            glob1 == IF TruthyStr(slot.group)
                     THEN removeFromGlobalGroup(S.globals, s, slot.id, slot.group)
                     ELSE S.globals
            sigs1 == IF TruthyStr(slot.group)
                     THEN removeFromSignalGroup(sigs0, s, slot.id, slot.group)
                     ELSE sigs0
            spliced == Splice1(sigs1[s].slots, slotIndex)
            sigs2 == IF Len(spliced) = 0 THEN MapDel(sigs1, s)
                     ELSE MapSet(sigs1, s, [sigs1[s] EXCEPT !.slots = spliced])
        IN  [signals |-> sigs2, globals |-> glob1, groupCache |-> invalidateCache]

\* the loop of Signal.disconnectByGroup over the snapshot of the group's pairs
RECURSIVE disconnectEach(_, _, _)
disconnectEach(S, hp, pairs) ==
    IF pairs = {} THEN S
    ELSE LET p == CHOOSE q \in pairs : TRUE
         IN  disconnectEach(disconnectById(S, hp, p.signalName, p.slotId), hp, pairs \ {p})

\* Signal.disconnectByGroup, for a valid group name
disconnectByGroup(S, hp, g) ==
    IF g \notin DOMAIN S.globals THEN S
    ELSE LET S1 == disconnectEach(S, hp, S.globals[g])
             glob2 == IF g \in DOMAIN S1.globals /\ S1.globals[g] = {}
                      THEN MapDel(S1.globals, g) ELSE S1.globals
         IN  [S1 EXCEPT !.globals = glob2, !.groupCache = invalidateCache]

\* the predicate of the filter in Signal.disconnect
isMatch(slot, slotFunc, target) ==
    \/ slot.callback = slotFunc
    \/ (TruthyStr(target) /\ slot.target = target)

\* the group clean-up done inside the filter of Signal.disconnect
RECURSIVE ungroupMatches(_, _, _, _, _, _)
ungroupMatches(S, hp, s, slots, slotFunc, target) ==
    IF slots = <<>> THEN S
    ELSE LET slot == hp[Head(slots)]
             S1 == IF isMatch(slot, slotFunc, target) /\ TruthyStr(slot.group)
                   THEN [S EXCEPT
                           !.globals = removeFromGlobalGroup(@, s, slot.id, slot.group),
                           !.signals = removeFromSignalGroup(@, s, slot.id, slot.group)]
                   ELSE S
         IN  ungroupMatches(S1, hp, s, Tail(slots), slotFunc, target)

\* Signal.disconnect(signal, slotFunc, target)
disconnect(S, hp, s, slotFunc, target) ==
    LET S0 == [S EXCEPT !.signals = getSignalData(@, s)]
        slots == S0.signals[s].slots
        S1 == ungroupMatches(S0, hp, s, slots, slotFunc, target)
        updatedSlots == SelectSeq(slots, LAMBDA r : ~isMatch(hp[r], slotFunc, target))
        sigs2 == IF Len(updatedSlots) > 0
                 THEN MapSet(S1.signals, s, [S1.signals[s] EXCEPT !.slots = updatedSlots])
                 ELSE MapDel(S1.signals, s)
    IN  [signals |-> sigs2, globals |-> S1.globals, groupCache |-> invalidateCache]

\* the slot object built by Signal.addSlot
newSlot(id, callback, target, o) ==
    [id |-> id, callback |-> callback, target |-> target,
     once |-> o.once, queued |-> o.queued,
     throttle |-> IF TruthyNum(o.throttle) THEN o.throttle ELSE Undefined,
     debounce |-> IF TruthyNum(o.debounce) THEN o.debounce ELSE Undefined,
     group |-> o.group,
     lastCallTime |-> Undefined, timeoutId |-> Undefined]

\* mutant of addSlot: the group cache is not invalidated
addSlot_keepCache(S, r, s, id, group) ==
    LET sigs0 == getSignalData(S.signals, s)
        sigs1 == MapSet(sigs0, s, [sigs0[s] EXCEPT !.slots = Append(@, r)])
        glob1 == IF TruthyStr(group) THEN addToGlobalGroup(S.globals, s, id, group)
                 ELSE S.globals
        sigs2 == IF TruthyStr(group) THEN addToSignalGroup(sigs1, s, id, group)
                 ELSE sigs1
    IN  [signals |-> sigs2, globals |-> glob1, groupCache |-> S.groupCache]

\* the store after Signal.addSlot pushed slot object r with the given id
addSlot(S, r, s, id, group) ==
    LET sigs0 == getSignalData(S.signals, s)
        sigs1 == MapSet(sigs0, s, [sigs0[s] EXCEPT !.slots = Append(@, r)])
        glob1 == IF TruthyStr(group) THEN addToGlobalGroup(S.globals, s, id, group)
                 ELSE S.globals
        sigs2 == IF TruthyStr(group) THEN addToSignalGroup(sigs1, s, id, group)
                 ELSE sigs1
    IN  [signals |-> sigs2, globals |-> glob1, groupCache |-> invalidateCache]

\* the function object stored for connect(signal, slotFunc, target):
\* slotFunc.bind(target) is a fresh function, equal to no slotFunc
boundCallback(slotFunc, target) ==
    IF TruthyStr(target) THEN [slotFunc EXCEPT !.bound = target] ELSE slotFunc

userFunc(f) == [fn |-> f, bound |-> NoTarget, to |-> "", tr |-> "none"]
forwarder(to, tr) == [fn |-> Forwarder, bound |-> NoTarget, to |-> to, tr |-> tr]

(* ------------------------------ queries -------------------------------- *)

\* Signal.getConnectionCountByGroup
getConnectionCountByGroup(glob, g) ==
    IF ~TruthyStr(g) THEN 0
    ELSE IF g \in DOMAIN glob THEN Cardinality(glob[g]) ELSE 0

\* Signal.hasConnectionsInGroup
hasConnectionsInGroup(glob, g) ==
    IF ~TruthyStr(g) THEN FALSE
    ELSE IF g \in DOMAIN glob THEN Cardinality(glob[g]) > 0 ELSE FALSE

\* Signal.getAllGroups at time now: the names it returns, as a set, and
\* the cache it leaves
getAllGroups(S, now) ==
    IF S.groupCache.defined /\ (now - S.groupCache.lastUpdateTime) < CACHE_TTL
    THEN [result |-> S.groupCache.groups, cache |-> S.groupCache]
    ELSE LET groups == {g \in DOMAIN S.globals : Cardinality(S.globals[g]) > 0}
         IN  [result |-> groups,
              cache |-> [defined |-> TRUE, groups |-> groups, lastUpdateTime |-> now]]

\* the slot objects registered on identity s, in store order
SlotsOf(sigs, s) == IF s \in DOMAIN sigs THEN sigs[s].slots ELSE <<>>
Registered(sigs) == UNION {Range(SlotsOf(sigs, s)) : s \in Names}
Refs == 1..Len(heap)

(* ------------------------------ history -------------------------------- *)

\* the history record of a slot object that was just created
newHist ==
    [count |-> 0,               \* invocations of the callback
     seen |-> 0,                \* emit calls whose snapshot holds the slot
     rel |-> "live",            \* "early": handle released before any emit reached the slot
     deliveredAt |-> Undefined, \* time of the last emit that reached executeSlot
     deliveredArgs |-> 0,       \* arguments of that emit
     acceptedAt |-> Undefined,  \* time of the last synchronous invocation
     invokedSince |-> FALSE,    \* the callback ran since deliveredAt
     threw |-> 0,               \* times the callback threw
     reported |-> 0]            \* console.error calls made for its errors

\* an emit call took the snapshot snap
sawEmit(h, snap) ==
    [r \in DOMAIN h |-> IF r \in Range(snap) THEN [h[r] EXCEPT !.seen = @ + 1] ELSE h[r]]

(* --------------------------- emission engine --------------------------- *)

Depth == Len(stack)
Top == stack[Len(stack)]
InCallback == stack # <<>> /\ Top.phase = "cb"
DueTimers == {t \in timers : t.due <= clock}
Idle == stack = <<>> /\ DueTimers = {}
\* application code runs either as a task of its own or inside a slot callback
CanCall == Idle \/ InCallback

\* mutant of applyTransform: the transform is ignored
applyTransform_ignored(tr, a) == a

\* the argument transformation of a forwarder
applyTransform(tr, a) == IF tr = "flip" THEN 3 - a ELSE a

\* the frame of an emit call: the snapshot [...signalData.slots], the loop
\* index and the loop variable cur; fired, via and start are history: the invocations made while the
\* call runs, the forwarder that made the call (0: application code) and the
\* slot objects registered on the identity when the call was made
newFrame(s, a, snap, via, start) ==
    [kind |-> "emit", sig |-> s, args |-> a, snap |-> snap, idx |-> 1, cur |-> 0,
     phase |-> "loop", fired |-> <<>>, via |-> via, start |-> start]

\* mutant of snapshot: the loop runs over the slots in reverse order
snapshot_reversed(slots) == [i \in 1..Len(slots) |-> slots[Len(slots) + 1 - i]]

\* the snapshot taken by Signal.emit
snapshot(slots) == slots

\* mutant of loopSlots: the loop runs over the live array of the store
loopSlots_live(frame, sigs) == SlotsOf(sigs, frame.sig)

\* the array that the loop of Signal.emit runs over: slotsToExecute
loopSlots(frame, sigs) == frame.snap

\* Signal.emit up to the start of the loop: the store entry is created by
\* _getSignalData, and the call returns at once when there are no slots
emitCall(S, stk, s, a, via) ==
    LET sigs0 == getSignalData(S.signals, s)
        slots == sigs0[s].slots
    IN  [store |-> [S EXCEPT !.signals = sigs0],
         stack |-> IF Len(slots) = 0 THEN stk
                   ELSE Append(stk, newFrame(s, a, snapshot(slots), via, Range(slots)))]

\* mutant of afterExecute: a once slot is left registered
afterExecute_keepOnce(S, hp, s, slot) == S

\* the statement after executeSlot in the loop of Signal.emit
afterExecute(S, hp, s, slot) ==
    IF slot.once THEN disconnectById(S, hp, s, slot.id) ELSE S

\* the throttle test of Signal.executeSlot
suppressed(slot, now) ==
    /\ TruthyNum(slot.throttle)
    /\ TruthyNum(slot.lastCallTime)
    /\ (now - slot.lastCallTime) < slot.throttle

\* the slot object after the throttle block of Signal.executeSlot
afterThrottle(slot, now) ==
    IF TruthyNum(slot.throttle) /\ ~suppressed(slot, now)
    THEN [slot EXCEPT !.lastCallTime = now] ELSE slot

\* the timer host after the debounce block of Signal.executeSlot
afterDebounce(tm, slot, r, a, h, now) ==
    LET cleared == IF TruthyNum(slot.timeoutId)
                   THEN {t \in tm : t.h # slot.timeoutId} ELSE tm
    IN  cleared \cup {[h |-> h, ref |-> r, args |-> a, due |-> now + slot.debounce]}

Init ==
    /\ nextId = 1
    /\ heap = <<>>
    /\ signals = EmptyMap
    /\ globals = EmptyMap
    /\ groupCache = invalidateCache
    /\ conns = <<>>
    /\ stack = <<>>
    /\ timers = {}
    /\ nextTimer = 1
    /\ clock = 0
    /\ emits = 0
    /\ reentered = FALSE
    /\ hist = <<>>
    /\ thrown = 0
    /\ tasks = <<>>
    /\ calls = <<>>
    /\ demoStore = [signals |-> EmptyMap, globalGroups |-> EmptyMap,
                    groupCache |-> invalidateCache]

\* mutant of validSlotArgs: the validation is missing
validSlotArgs_none(s, callback) == TRUE

\* the argument validation of Signal.addSlot; a callback that is not a
\* function already makes slotFunc.bind(target) throw in Signal.connect
validSlotArgs(s, callback) == TruthyStr(s) /\ callback.fn # NotAFunction

\* the part of Signal.connect / Signal.forwardTo shared by both: addSlot
\* with the stored callback, and the Connection it returns, or the error
\* thrown for invalid arguments
Register(s, callback, target, o) ==
    /\ CanCall
    /\ IF validSlotArgs(s, callback)
       THEN LET id == nextId + 1
                r == Len(heap) + 1
                slot == newSlot(id, callback, target, o)
                S == addSlot(store, r, s, id, slot.group)
            IN  /\ nextId' = id
                /\ heap' = Append(heap, slot)
                /\ signals' = S.signals
                /\ globals' = S.globals
                /\ groupCache' = S.groupCache
                /\ conns' = Append(conns, [id |-> id, signalName |-> s, connected |-> TRUE])
                /\ hist' = Append(hist, newHist)
                /\ thrown' = thrown
       ELSE /\ thrown' = thrown + 1
            /\ UNCHANGED <<nextId, heap, signals, globals, groupCache, conns, hist>>
    /\ UNCHANGED <<stack, timers, nextTimer, clock, emits, reentered, tasks, calls, demoStore>>

\* Signal.connect(signal, slotFunc, target, options)
Connect(s, f, t, o) ==
    Register(s, boundCallback(userFunc(f), t), t, o)

\* forwardTo connecting its forwarder without the options it was given
ForwardTo_noOptions(s, to, o, tr) ==
    Register(s, forwarder(to, tr), NoTarget,
             [o EXCEPT !.once = FALSE, !.group = NoGroup])

\* Signal.forwardTo(sourceSignal, targetSignal, options, transform)
ForwardTo(s, to, o, tr) ==
    Register(s, forwarder(to, tr), NoTarget, o)

\* Signal.disconnect(signal, slotFunc, target)
Disconnect(s, f, t) ==
    /\ CanCall
    /\ LET S == disconnect(store, heap, s, userFunc(f), t)
       IN  /\ signals' = S.signals
           /\ globals' = S.globals
           /\ groupCache' = S.groupCache
    /\ UNCHANGED <<thrown, tasks, calls, demoStore>>
    /\ UNCHANGED <<nextId, heap, conns, stack, timers, nextTimer, clock, emits,
                   reentered, hist>>

\* Signal.disconnectById(signalName, id), called by application code
DisconnectById(s, id) ==
    /\ CanCall
    /\ LET S == disconnectById(store, heap, s, id)
       IN  /\ signals' = S.signals
           /\ globals' = S.globals
           /\ groupCache' = S.groupCache
    /\ UNCHANGED <<thrown, tasks, calls, demoStore>>
    /\ UNCHANGED <<nextId, heap, conns, stack, timers, nextTimer, clock, emits,
                   reentered, hist>>

\* Signal.disconnectByGroup(groupName): an empty name throws
DisconnectByGroup(g) ==
    /\ CanCall
    /\ IF ~TruthyStr(g)
       THEN /\ thrown' = thrown + 1
            /\ UNCHANGED <<signals, globals, groupCache>>
       ELSE LET S == disconnectByGroup(store, heap, g)
            IN  /\ signals' = S.signals
                /\ globals' = S.globals
                /\ groupCache' = S.groupCache
                /\ thrown' = thrown
    /\ UNCHANGED <<nextId, heap, conns, stack, timers, nextTimer, clock, emits,
                   reentered, hist, tasks, calls, demoStore>>

\* Signal.reset()
Reset ==
    /\ CanCall
    /\ signals' = EmptyMap
    /\ globals' = EmptyMap
    /\ groupCache' = invalidateCache
    /\ nextId' = 1
    /\ UNCHANGED <<heap, conns, stack, timers, nextTimer, clock, emits, reentered,
                   hist, thrown, tasks, calls, demoStore>>

\* mutant of connectionDisconnect: the closure runs on every call
connectionDisconnect_unguarded(S, hp, c) ==
    [store |-> disconnectById(S, hp, c.signalName, c.id),
     conn |-> [c EXCEPT !.connected = FALSE]]

\* Connection.disconnect: the closure runs once, then the handle is spent
connectionDisconnect(S, hp, c) ==
    IF c.connected
    THEN [store |-> disconnectById(S, hp, c.signalName, c.id),
          conn |-> [c EXCEPT !.connected = FALSE]]
    ELSE [store |-> S, conn |-> c]

\* Connection.disconnect() on the handle of slot object r
ConnectionDisconnect(r) ==
    /\ CanCall
    /\ r \in DOMAIN conns
    /\ LET res == connectionDisconnect(store, heap, conns[r])
       IN  /\ signals' = res.store.signals
           /\ globals' = res.store.globals
           /\ groupCache' = res.store.groupCache
           /\ conns' = [conns EXCEPT ![r] = res.conn]
    /\ hist' = [hist EXCEPT ![r].rel =
                  IF @ = "live" THEN (IF hist[r].seen = 0 THEN "early" ELSE "late") ELSE @]
    /\ UNCHANGED <<thrown, tasks, calls, demoStore>>
    /\ UNCHANGED <<nextId, heap, stack, timers, nextTimer, clock, emits, reentered>>

\* Signal.emit(signal, args) called by application code
Emit(s, a) ==
    /\ CanCall
    /\ LET res == emitCall(store, stack, s, a, 0)
       IN  /\ signals' = res.store.signals
           /\ globals' = res.store.globals
           /\ groupCache' = res.store.groupCache
           /\ stack' = res.stack
           /\ hist' = sawEmit(hist, SlotsOf(signals, s))
    /\ emits' = emits + 1
    /\ reentered' = (reentered \/ stack # <<>>)
    /\ UNCHANGED <<thrown, tasks, calls, demoStore>>
    /\ UNCHANGED <<nextId, heap, conns, timers, nextTimer, clock>>

\* what invoking the callback of slot object r with arguments a does to the
\* stack whose top frame is the caller: a user callback starts running, a
\* forwarder re-emits on its target
invoke(S, stk, h, r, a) ==
    LET cb == heap[r].callback
        entry == [ref |-> r, args |-> a, via |-> Last(stk).via, d |-> Len(stk)]
        stk1 == [stk EXCEPT ![Len(stk)].fired = Append(@, entry),
                            ![Len(stk)].cur = r,
                            ![Len(stk)].phase = IF cb.fn = Forwarder THEN "fwd" ELSE "cb"]
        h1 == [h EXCEPT ![r].count = @ + 1,
                        ![r].invokedSince = (@ \/ h[r].deliveredAt # Undefined)]
    IN  IF cb.fn = Forwarder
        THEN LET res == emitCall(S, stk1, cb.to, applyTransform(cb.tr, a), r)
             IN  [store |-> res.store, stack |-> res.stack,
                  hist |-> sawEmit(h1, SlotsOf(S.signals, cb.to))]
        ELSE [store |-> S, stack |-> stk1, hist |-> h1]

\* one iteration of the loop of Signal.emit up to the point where the
\* callback starts running: Signal.executeSlot, and the once removal when
\* executeSlot returned without running the callback
ExecuteSlot ==
    /\ stack # <<>>
    /\ Top.kind = "emit"
    /\ Top.phase = "loop"
    /\ Top.idx <= Len(loopSlots(Top, signals))
    /\ LET r == loopSlots(Top, signals)[Top.idx]
           slot == heap[r]
           slot1 == afterThrottle(slot, clock)
           timed == TruthyNum(slot.throttle) \/ TruthyNum(slot.debounce)
           h0 == IF timed
                 THEN [hist EXCEPT ![r].deliveredAt = clock, ![r].deliveredArgs = Top.args,
                                   ![r].invokedSince = FALSE]
                 ELSE hist
       IN  IF suppressed(slot, clock) \/ TruthyNum(slot1.debounce)
           THEN LET deb == ~suppressed(slot, clock)
                    slot2 == IF deb THEN [slot1 EXCEPT !.timeoutId = nextTimer] ELSE slot1
                    hp == [heap EXCEPT ![r] = slot2]
                    S == afterExecute(store, hp, Top.sig, slot2)
                IN  /\ heap' = hp
                    /\ timers' = IF deb
                                 THEN afterDebounce(timers, slot1, r, Top.args, nextTimer, clock)
                                 ELSE timers
                    /\ nextTimer' = IF deb THEN nextTimer + 1 ELSE nextTimer
                    /\ signals' = S.signals
                    /\ globals' = S.globals
                    /\ groupCache' = S.groupCache
                    /\ stack' = [stack EXCEPT ![Len(stack)].idx = @ + 1,
                                              ![Len(stack)].cur = r]
                    /\ hist' = IF deb THEN h0 ELSE hist
           ELSE LET h1 == IF timed THEN [h0 EXCEPT ![r].acceptedAt = clock] ELSE h0
                    res == invoke(store, stack, h1, r, Top.args)
                IN  /\ heap' = [heap EXCEPT ![r] = slot1]
                    /\ UNCHANGED <<timers, nextTimer>>
                    /\ signals' = res.store.signals
                    /\ globals' = res.store.globals
                    /\ groupCache' = res.store.groupCache
                    /\ stack' = res.stack
                    /\ hist' = res.hist
    /\ UNCHANGED <<thrown, tasks, calls, demoStore>>
    /\ UNCHANGED <<nextId, conns, clock, emits, reentered>>

\* the running callback returns: to the loop of Signal.emit, which removes
\* a once slot and moves on, or to the timer closure of executeSlot, which
\* clears timeoutId
CallbackReturn ==
    /\ stack # <<>>
    /\ Top.phase \in {"cb", "fwd"}
    /\ LET r == Top.cur
       IN  IF Top.kind = "emit"
           THEN LET S == afterExecute(store, heap, Top.sig, heap[r])
                IN  /\ signals' = S.signals
                    /\ globals' = S.globals
                    /\ groupCache' = S.groupCache
                    /\ stack' = [stack EXCEPT ![Len(stack)].idx = @ + 1,
                                              ![Len(stack)].phase = "loop"]
                    /\ heap' = heap
           ELSE /\ heap' = [heap EXCEPT ![r].timeoutId = Undefined]
                /\ stack' = Front(stack)
                /\ UNCHANGED <<signals, globals, groupCache>>
    /\ UNCHANGED <<thrown, tasks, calls, demoStore>>
    /\ UNCHANGED <<nextId, conns, timers, nextTimer, clock, emits, reentered, hist>>

\* the catch block of Signal.executeSlot evaluates
\* slot.target.constructor.name, which throws a TypeError when the target
\* is truthy and has no constructor
catchThrows(slot) == TruthyStr(slot.target) /\ slot.target = Bare

\* the stack after the error of the running callback left the emit call of
\* the top frame: the call is abandoned, and when its caller is the closure
\* of a forwarder the error goes on to the executeSlot that ran the
\* forwarder, whose catch block ends that iteration of the caller's loop
abandon(stk) ==
    LET rest == Front(stk)
    IN  IF rest = <<>> THEN rest
        ELSE LET merged == [rest EXCEPT ![Len(rest)].fired = @ \o Last(stk).fired]
             IN  IF Last(rest).phase = "fwd"
                 THEN [merged EXCEPT ![Len(rest)].idx = @ + 1,
                                     ![Len(rest)].phase = "loop"]
                 ELSE merged

\* the running callback throws: inside the try of Signal.executeSlot the
\* catch block reports the error with console.error and the loop of
\* Signal.emit goes on, unless the catch block throws itself; the timer
\* closure of executeSlot has no try, so there the error reaches the timer
\* host and timeoutId is not cleared
CallbackThrow ==
    /\ stack # <<>>
    /\ Top.phase = "cb"
    /\ LET r == Top.cur
           h1 == [hist EXCEPT ![r].threw = @ + 1]
       IN  IF Top.kind = "timer"
           THEN /\ stack' = Front(stack)
                /\ thrown' = thrown + 1
                /\ hist' = h1
                /\ UNCHANGED <<signals, globals, groupCache>>
           ELSE IF catchThrows(heap[r])
           THEN LET stk == abandon(stack)
                    viaFwd == Depth > 1 /\ stack[Depth - 1].phase = "fwd"
                    f == stack[Depth - 1].cur
                    S == IF viaFwd
                         THEN afterExecute(store, heap, stack[Depth - 1].sig, heap[f])
                         ELSE store
                IN  /\ stack' = stk
                    /\ thrown' = IF viaFwd THEN thrown ELSE thrown + 1
                    /\ hist' = IF viaFwd THEN [h1 EXCEPT ![f].reported = @ + 1] ELSE h1
                    /\ signals' = S.signals
                    /\ globals' = S.globals
                    /\ groupCache' = S.groupCache
           ELSE LET S == afterExecute(store, heap, Top.sig, heap[r])
                IN  /\ signals' = S.signals
                    /\ globals' = S.globals
                    /\ groupCache' = S.groupCache
                    /\ stack' = [stack EXCEPT ![Len(stack)].idx = @ + 1,
                                              ![Len(stack)].phase = "loop"]
                    /\ hist' = [h1 EXCEPT ![r].reported = @ + 1]
                    /\ thrown' = thrown
    /\ UNCHANGED <<nextId, heap, conns, timers, nextTimer, clock, emits, reentered,
                   tasks, calls, demoStore>>

\* the loop of Signal.emit is over and the call returns to its caller
EmitReturn ==
    /\ stack # <<>>
    /\ Top.kind = "emit"
    /\ Top.phase = "loop"
    /\ Top.idx > Len(loopSlots(Top, signals))
    /\ stack' = IF Depth = 1 THEN <<>>
                ELSE [Front(stack) EXCEPT ![Depth - 1].fired = @ \o Top.fired]
    /\ UNCHANGED <<thrown, tasks, calls, demoStore>>
    /\ UNCHANGED <<nextId, heap, signals, globals, groupCache, conns, timers,
                   nextTimer, clock, emits, reentered, hist>>

\* the timer host runs the closure that executeSlot gave to setTimeout
TimerFire(t) ==
    /\ stack = <<>>
    /\ t \in DueTimers
    /\ timers' = timers \ {t}
    /\ LET frame == [kind |-> "timer", sig |-> "", args |-> t.args, snap |-> <<t.ref>>,
                     idx |-> 1, cur |-> t.ref, phase |-> "loop", fired |-> <<>>, via |-> 0,
                     start |-> {t.ref}]
           res == invoke(store, <<frame>>, hist, t.ref, t.args)
       IN  /\ signals' = res.store.signals
           /\ globals' = res.store.globals
           /\ groupCache' = res.store.groupCache
           /\ stack' = res.stack
           /\ hist' = res.hist
    /\ UNCHANGED <<thrown, tasks, calls, demoStore>>
    /\ UNCHANGED <<nextId, heap, conns, nextTimer, clock, emits, reentered>>

\* Signal.getAllGroups(), called by application code
GetAllGroups ==
    /\ CanCall
    /\ groupCache' = getAllGroups(store, clock).cache
    /\ UNCHANGED <<nextId, heap, signals, globals, conns, stack, timers, nextTimer,
                   clock, emits, reentered, hist, thrown, tasks, calls, demoStore>>

\* d milliseconds pass between two tasks
Wait(d) ==
    /\ Idle
    /\ clock' = clock + d
    /\ UNCHANGED <<nextId, heap, signals, globals, groupCache, conns, stack, timers,
                   nextTimer, emits, reentered, hist, thrown, tasks, calls, demoStore>>

\* time passes between two tasks
Tick ==
    /\ Idle
    /\ clock < MaxClock
    /\ clock' = clock + 1
    /\ UNCHANGED <<thrown, tasks, calls, demoStore>>
    /\ UNCHANGED <<nextId, heap, signals, globals, groupCache, conns, stack, timers,
                   nextTimer, emits, reentered, hist>>

(* ------------- the static Signal of qt-signal-group-demo.ts ------------ *)
(* The class has the store, the handles and addSlot of the class above, so  *)
(* connect is the action Connect.  Its _globalGroups map, group -> identity *)
(* -> set of ids, is held in `globals` as the set of (identity, id) pairs   *)
(* of each group.  Its emit removes a once slot before running it and       *)
(* defers a queued slot with setTimeout(..., 0); its disconnect variants    *)
(* create no store entry.  The slots connected here have neither throttle   *)
(* nor debounce, for which executeSlot is the executeSlot modelled above.   *)

\* Signal.disconnectById of the demo class
demo_disconnectById(S, hp, s, id) ==
    IF s \notin DOMAIN S.signals THEN S
    ELSE
    LET slotIndex == findIndex(hp, S.signals[s].slots, id)
    IN  IF slotIndex = 0 THEN S
        ELSE
        LET slot == hp[S.signals[s].slots[slotIndex]]
            group == slot.group
            spliced == Splice1(S.signals[s].slots, slotIndex)
            sigs1 == MapSet(S.signals, s, [S.signals[s] EXCEPT !.slots = spliced])
            sigs2 == IF TruthyStr(group) THEN removeFromSignalGroup(sigs1, s, id, group)
                     ELSE sigs1
            glob1 == IF TruthyStr(group) THEN removeFromGlobalGroup(S.globals, s, id, group)
                     ELSE S.globals
            sigs3 == IF Len(spliced) = 0 THEN MapDel(sigs2, s) ELSE sigs2
        IN  [signals |-> sigs3, globals |-> glob1, groupCache |-> invalidateCache]

\* the loop of the demo class's disconnectByGroup over slotsToDisconnect
RECURSIVE demo_disconnectEach(_, _, _)
demo_disconnectEach(S, hp, pairs) ==
    IF pairs = {} THEN S
    ELSE LET p == CHOOSE q \in pairs : TRUE
         IN  demo_disconnectEach(demo_disconnectById(S, hp, p.signalName, p.slotId),
                                 hp, pairs \ {p})

\* Signal.disconnectByGroup of the demo class, for a valid group name
demo_disconnectByGroup(S, hp, g) ==
    IF g \notin DOMAIN S.globals THEN S
    ELSE [demo_disconnectEach(S, hp, S.globals[g]) EXCEPT !.groupCache = invalidateCache]

\* the test of the loop in the demo class's disconnect
demo_isMatch(slot, slotFunc, target) ==
    /\ slot.callback = slotFunc
    /\ (~TruthyStr(target) \/ slot.target = target)

\* the group clean-up of the demo class's disconnect over slotsToRemove
RECURSIVE demo_ungroup(_, _, _, _)
demo_ungroup(S, hp, s, removed) ==
    IF removed = <<>> THEN S
    ELSE LET slot == hp[Head(removed)]
             S1 == IF TruthyStr(slot.group)
                   THEN [S EXCEPT
                           !.signals = removeFromSignalGroup(@, s, slot.id, slot.group),
                           !.globals = removeFromGlobalGroup(@, s, slot.id, slot.group)]
                   ELSE S
         IN  demo_ungroup(S1, hp, s, Tail(removed))

\* Signal.disconnect of the demo class
demo_disconnect(S, hp, s, slotFunc, target) ==
    IF s \notin DOMAIN S.signals THEN S
    ELSE
    LET slots == S.signals[s].slots
        slotsToKeep == SelectSeq(slots, LAMBDA r : ~demo_isMatch(hp[r], slotFunc, target))
        slotsToRemove == SelectSeq(slots, LAMBDA r : demo_isMatch(hp[r], slotFunc, target))
        S1 == [S EXCEPT !.signals[s].slots = slotsToKeep]
        S2 == demo_ungroup(S1, hp, s, slotsToRemove)
        sigs3 == IF Len(slotsToKeep) = 0 THEN MapDel(S2.signals, s) ELSE S2.signals
    IN  [signals |-> sigs3, globals |-> S2.globals, groupCache |-> invalidateCache]

\* mutant of schedule: the closure is put in front of the waiting ones
schedule_first(q, t) == <<t>> \o q

\* setTimeout(closure, 0): the closure runs after those scheduled before it
schedule(q, t) == Append(q, t)

\* mutant of taskSlot: the closure looks the slot up in the store and does
\* nothing when it is gone
taskSlot_lookup(sigs, t) == IF t.ref \in Registered(sigs) THEN t.ref ELSE 0

\* the slot object that the closure of a queued slot passes on: the one it
\* captured when it was scheduled
taskSlot(sigs, t) == t.ref

\* Signal.emit of the demo class, called by application code: no entry is
\* created; em numbers the emit calls
DemoEmit(s, a) ==
    /\ CanCall
    /\ LET slots == SlotsOf(signals, s)
           frame == [kind |-> "demo", sig |-> s, args |-> a, snap |-> snapshot(slots),
                     idx |-> 1, cur |-> 0, phase |-> "loop", fired |-> <<>>, via |-> 0,
                     start |-> Range(slots), em |-> emits + 1, call |-> 0]
       IN  /\ stack' = IF Len(slots) = 0 THEN stack ELSE Append(stack, frame)
           /\ hist' = sawEmit(hist, slots)
    /\ emits' = emits + 1
    /\ reentered' = (reentered \/ stack # <<>>)
    /\ UNCHANGED <<nextId, heap, signals, globals, groupCache, conns, timers,
                   nextTimer, clock, thrown, tasks, calls, demoStore>>

\* one iteration of the loop of the demo class's emit, up to the point where
\* the callback of a slot that is not queued starts running
DemoExecuteSlot ==
    /\ stack # <<>>
    /\ Top.kind = "demo"
    /\ Top.phase = "loop"
    /\ Top.idx <= Len(Top.snap)
    /\ LET r == Top.snap[Top.idx]
           slot == heap[r]
           S == IF slot.once THEN demo_disconnectById(store, heap, Top.sig, slot.id)
                ELSE store
       IN  /\ signals' = S.signals
           /\ globals' = S.globals
           /\ groupCache' = S.groupCache
           /\ IF slot.queued
              THEN /\ tasks' = schedule(tasks, [ref |-> r, args |-> Top.args,
                                                em |-> Top.em, call |-> 0])
                   /\ stack' = [stack EXCEPT ![Len(stack)].idx = @ + 1,
                                             ![Len(stack)].cur = r]
                   /\ hist' = hist
              ELSE LET res == invoke(S, stack, hist, r, Top.args)
                   IN  /\ stack' = res.stack
                       /\ hist' = res.hist
                       /\ tasks' = tasks
    /\ UNCHANGED <<nextId, heap, conns, timers, nextTimer, clock, emits, reentered,
                   thrown, calls, demoStore>>

\* the running callback returns to the loop of the demo class's emit
DemoCallbackReturn ==
    /\ stack # <<>>
    /\ Top.kind = "demo"
    /\ Top.phase = "cb"
    /\ stack' = [stack EXCEPT ![Len(stack)].idx = @ + 1, ![Len(stack)].phase = "loop"]
    /\ UNCHANGED <<nextId, heap, signals, globals, groupCache, conns, timers,
                   nextTimer, clock, emits, reentered, hist, thrown, tasks, calls, demoStore>>

\* the loop of the demo class's emit is over and the call returns
DemoEmitReturn ==
    /\ stack # <<>>
    /\ Top.kind = "demo"
    /\ Top.phase = "loop"
    /\ Top.idx > Len(Top.snap)
    /\ stack' = IF Depth = 1 THEN <<>>
                ELSE [Front(stack) EXCEPT ![Depth - 1].fired = @ \o Top.fired]
    /\ UNCHANGED <<nextId, heap, signals, globals, groupCache, conns, timers,
                   nextTimer, clock, emits, reentered, hist, thrown, tasks, calls, demoStore>>

\* the timer host runs the closure of a queued slot on a later turn
RunTask ==
    /\ stack = <<>>
    /\ tasks # <<>>
    /\ tasks' = Tail(tasks)
    /\ LET t == Head(tasks)
           r == taskSlot(signals, t)
           frame == [kind |-> "task", sig |-> "", args |-> t.args, snap |-> <<r>>,
                     idx |-> 1, cur |-> r, phase |-> "loop", fired |-> <<>>, via |-> 0,
                     start |-> {r}, em |-> t.em, call |-> t.call]
       IN  IF r = 0 THEN UNCHANGED <<stack, hist>>
           ELSE LET res == invoke(store, <<frame>>, hist, r, t.args)
                IN  /\ stack' = res.stack
                    /\ hist' = res.hist
    /\ UNCHANGED <<nextId, heap, signals, globals, groupCache, conns, timers,
                   nextTimer, clock, emits, reentered, thrown, calls, demoStore>>

\* the callback run by the closure of a queued slot returns: the turn ends
DemoTaskReturn ==
    /\ stack # <<>>
    /\ Top.kind = "task"
    /\ Top.call = 0
    /\ Top.phase = "cb"
    /\ stack' = Front(stack)
    /\ UNCHANGED <<nextId, heap, signals, globals, groupCache, conns, timers,
                   nextTimer, clock, emits, reentered, hist, thrown, tasks, calls, demoStore>>

\* Signal.disconnect of the demo class, called by application code
DemoDisconnect(s, f, t) ==
    /\ CanCall
    /\ LET S == demo_disconnect(store, heap, s, userFunc(f), t)
       IN  /\ signals' = S.signals
           /\ globals' = S.globals
           /\ groupCache' = S.groupCache
    /\ UNCHANGED <<nextId, heap, conns, stack, timers, nextTimer, clock, emits,
                   reentered, hist, thrown, tasks, calls, demoStore>>

\* Signal.disconnectByGroup of the demo class with a valid group name
DemoDisconnectByGroup(g) ==
    /\ CanCall
    /\ TruthyStr(g)
    /\ LET S == demo_disconnectByGroup(store, heap, g)
       IN  /\ signals' = S.signals
           /\ globals' = S.globals
           /\ groupCache' = S.groupCache
    /\ UNCHANGED <<nextId, heap, conns, stack, timers, nextTimer, clock, emits,
                   reentered, hist, thrown, tasks, calls, demoStore>>

\* Connection.disconnect() on a handle of the demo class
DemoConnectionDisconnect(r) ==
    /\ CanCall
    /\ r \in DOMAIN conns
    /\ LET S == IF conns[r].connected
                THEN demo_disconnectById(store, heap, conns[r].signalName, conns[r].id)
                ELSE store
       IN  /\ signals' = S.signals
           /\ globals' = S.globals
           /\ groupCache' = S.groupCache
    /\ conns' = [conns EXCEPT ![r].connected = FALSE]
    /\ UNCHANGED <<nextId, heap, stack, timers, nextTimer, clock, emits, reentered,
                   hist, thrown, tasks, calls, demoStore>>

(* ---------------- the per-instance Signal of part_000 ------------------ *)
(* One Signal object.  Its Map _slots, keyed by id in insertion order, is   *)
(* held as the slot sequence of the identity This; an empty Map is the      *)
(* absent entry.  Ids come from _nextId++, the callback is stored as given, *)
(* and a slot has none of group, throttle and debounce.  `calls` holds one  *)
(* record per emitAsync call: its slot promises and the promise it returned. *)

This == "A"

\* the keys of _slots in insertion order, as slot objects
inst_slots(sigs) == SlotsOf(sigs, This)

\* _slots after its entries became seq
inst_put(sigs, seq) ==
    IF seq = <<>> THEN MapDel(sigs, This)
    ELSE MapSet(sigs, This, [slots |-> seq, groups |-> EmptyMap])

\* mutant of inst_has: the membership test of the loop always succeeds
inst_has_always(sigs, hp, id) == TRUE

\* this._slots.has(id)
inst_has(sigs, hp, id) == \E r \in Range(inst_slots(sigs)) : hp[r].id = id

\* this._slots.delete(id)
inst_delete(sigs, hp, id) ==
    inst_put(sigs, SelectSeq(inst_slots(sigs), LAMBDA r : hp[r].id # id))

\* Signal.disconnect(fnOrTargetOrId): x is the argument with its typeof
inst_disconnect(sigs, hp, x) ==
    IF x.type = "undefined" THEN inst_put(sigs, <<>>)
    ELSE IF x.type = "number" THEN inst_delete(sigs, hp, x.val)
    ELSE inst_put(sigs,
            SelectSeq(inst_slots(sigs),
                      LAMBDA r : ~(\/ x.type = "function" /\ hp[r].callback = x.val
                                   \/ x.type = "object" /\ hp[r].target = x.val)))

\* the slot object built by Signal.connect
inst_newSlot(id, callback, target, o) ==
    newSlot(id, callback, target,
            [once |-> o.once, queued |-> o.queued, group |-> NoGroup,
             throttle |-> 0, debounce |-> 0])

\* mutant of executeOutcome: the error is not caught, so it rejects the slot
\* promise when thrown inside the executor and ends the timer task otherwise
executeOutcome_uncaught(queued) == IF queued THEN "pending" ELSE "rejected"

\* the state of a slot promise of emitAsync after its callback threw: the
\* error is caught and logged and the finally block calls resolve()
executeOutcome(queued) == "resolved"

\* mutant of promiseAll: settles with the first promise that resolves
promiseAll_race(ps) ==
    IF \E j \in DOMAIN ps : ps[j].state = "rejected" THEN "rejected"
    ELSE IF ps = <<>> \/ \E j \in DOMAIN ps : ps[j].state = "resolved" THEN "resolved"
    ELSE "pending"

\* Promise.all(promises)
promiseAll(ps) ==
    IF \E j \in DOMAIN ps : ps[j].state = "rejected" THEN "rejected"
    ELSE IF \A j \in DOMAIN ps : ps[j].state = "resolved" THEN "resolved"
    ELSE "pending"

\* the slot promise of slot r in emitAsync call k settles as st
settleSlot(cs, k, r, st) ==
    [cs EXCEPT ![k].slots =
        [j \in DOMAIN @ |-> IF @[j].ref = r THEN [@[j] EXCEPT !.state = st] ELSE @[j]]]

\* the execute closure of slot r in emitAsync call k invokes the callback
\* with arguments a
ranSlot(cs, k, r, a) ==
    [cs EXCEPT ![k].slots =
        [j \in DOMAIN @ |-> IF @[j].ref = r THEN [@[j] EXCEPT !.ran = @ + 1, !.got = a]
                            ELSE @[j]]]

\* the continuation of an emitAsync call after its await is ready to run:
\* it runs as a microtask, before the next task
Settling ==
    \E k \in DOMAIN calls :
        /\ calls[k].looped
        /\ calls[k].state = "pending"
        /\ promiseAll(calls[k].slots) # "pending"

\* signal.connect(callback, target, options)
InstConnect(f, t, o) ==
    /\ CanCall
    /\ LET id == nextId
           r == Len(heap) + 1
       IN  /\ nextId' = nextId + 1
           /\ heap' = Append(heap, inst_newSlot(id, userFunc(f), t, o))
           /\ signals' = inst_put(signals, Append(inst_slots(signals), r))
           /\ conns' = Append(conns, [id |-> id, signalName |-> This, connected |-> TRUE])
           /\ hist' = Append(hist, newHist)
    /\ UNCHANGED <<globals, groupCache, stack, timers, nextTimer, clock, emits,
                   reentered, thrown, tasks, calls, demoStore>>

\* signal.disconnect(fnOrTargetOrId)
InstDisconnect(x) ==
    /\ CanCall
    /\ signals' = inst_disconnect(signals, heap, x)
    /\ UNCHANGED <<nextId, heap, globals, groupCache, conns, stack, timers, nextTimer,
                   clock, emits, reentered, hist, thrown, tasks, calls, demoStore>>

\* Connection.disconnect() on a handle of the instance
InstConnectionDisconnect(r) ==
    /\ CanCall
    /\ r \in DOMAIN conns
    /\ signals' = IF conns[r].connected THEN inst_delete(signals, heap, conns[r].id)
                  ELSE signals
    /\ conns' = [conns EXCEPT ![r].connected = FALSE]
    /\ UNCHANGED <<nextId, heap, globals, groupCache, stack, timers, nextTimer, clock,
                   emits, reentered, hist, thrown, tasks, calls, demoStore>>

\* the frame of a call of emit (k = 0) or of emitAsync call k
inst_frame(sigs, a, em, k) ==
    [kind |-> "inst", sig |-> This, args |-> a, snap |-> snapshot(inst_slots(sigs)),
     idx |-> 1, cur |-> 0, phase |-> "loop", fired |-> <<>>, via |-> 0,
     start |-> Range(inst_slots(sigs)), em |-> em, call |-> k]

\* signal.emit(args), called by application code
InstEmit(a) ==
    /\ CanCall
    /\ stack' = IF inst_slots(signals) = <<>> THEN stack
                ELSE Append(stack, inst_frame(signals, a, emits + 1, 0))
    /\ hist' = sawEmit(hist, inst_slots(signals))
    /\ emits' = emits + 1
    /\ reentered' = (reentered \/ stack # <<>>)
    /\ UNCHANGED <<nextId, heap, signals, globals, groupCache, conns, timers,
                   nextTimer, clock, thrown, tasks, calls, demoStore>>

\* signal.emitAsync(args), called by application code: the body runs up to
\* its await inside the call
InstEmitAsync(a) ==
    /\ CanCall
    /\ LET k == Len(calls) + 1
           none == inst_slots(signals) = <<>>
       IN  /\ stack' = IF none THEN stack
                       ELSE Append(stack, inst_frame(signals, a, emits + 1, k))
           /\ calls' = Append(calls, [args |-> a, snap |-> snapshot(inst_slots(signals)),
                                      skipped |-> {}, slots |-> <<>>, looped |-> none,
                                      state |-> "pending", threw |-> 0])
    /\ hist' = sawEmit(hist, inst_slots(signals))
    /\ emits' = emits + 1
    /\ reentered' = (reentered \/ stack # <<>>)
    /\ UNCHANGED <<nextId, heap, signals, globals, groupCache, conns, timers,
                   nextTimer, clock, thrown, tasks, demoStore>>

\* one iteration of the loop of emit or emitAsync, up to the point where the
\* callback of a slot that is not queued starts running
InstExecuteSlot ==
    /\ stack # <<>>
    /\ Top.kind = "inst"
    /\ Top.phase = "loop"
    /\ Top.idx <= Len(Top.snap)
    /\ LET r == Top.snap[Top.idx]
           slot == heap[r]
           k == Top.call
           next == [stack EXCEPT ![Len(stack)].idx = @ + 1, ![Len(stack)].cur = r]
       IN  IF ~inst_has(signals, heap, slot.id)
           THEN /\ stack' = next
                /\ calls' = IF k = 0 THEN calls
                            ELSE [calls EXCEPT ![k].skipped = @ \cup {r}]
                /\ UNCHANGED <<signals, hist, tasks>>
           ELSE LET sigs1 == IF slot.once THEN inst_delete(signals, heap, slot.id)
                             ELSE signals
                    calls1 == IF k = 0 THEN calls
                              ELSE [calls EXCEPT ![k].slots =
                                      Append(@, [ref |-> r, state |-> "pending", ran |-> 0,
                                                 got |-> 0])]
                IN  /\ signals' = sigs1
                    /\ IF slot.queued
                       THEN /\ tasks' = schedule(tasks, [kind |-> "slot", ref |-> r,
                                                         args |-> Top.args, em |-> Top.em,
                                                         call |-> k])
                            /\ stack' = next
                            /\ hist' = hist
                            /\ calls' = calls1
                       ELSE LET res == invoke(store, stack, hist, r, Top.args)
                            IN  /\ stack' = res.stack
                                /\ hist' = res.hist
                                /\ tasks' = tasks
                                /\ calls' = IF k = 0 THEN calls1 ELSE ranSlot(calls1, k, r, Top.args)
    /\ UNCHANGED <<nextId, heap, globals, groupCache, conns, timers, nextTimer, clock,
                   emits, reentered, thrown, demoStore>>

\* the callback run by the loop returns: in emitAsync the finally block
\* resolves the slot promise
InstCallbackReturn ==
    /\ stack # <<>>
    /\ Top.kind = "inst"
    /\ Top.phase = "cb"
    /\ stack' = [stack EXCEPT ![Len(stack)].idx = @ + 1, ![Len(stack)].phase = "loop"]
    /\ calls' = IF Top.call = 0 THEN calls
                ELSE settleSlot(calls, Top.call, Top.cur, "resolved")
    /\ UNCHANGED <<nextId, heap, signals, globals, groupCache, conns, timers,
                   nextTimer, clock, emits, reentered, hist, thrown, tasks, demoStore>>

\* the running callback throws: emit's catch block schedules the report of
\* the error, emitAsync's logs it and its finally block resolves the promise
InstCallbackThrow ==
    /\ stack # <<>>
    /\ Top.kind \in {"inst", "itask"}
    /\ Top.phase = "cb"
    /\ LET r == Top.cur
           k == Top.call
       IN  /\ IF k = 0
              THEN /\ tasks' = schedule(tasks, [kind |-> "report", ref |-> r,
                                                args |-> Top.args, em |-> Top.em,
                                                call |-> 0])
                   /\ hist' = [hist EXCEPT ![r].threw = @ + 1]
                   /\ calls' = calls
              ELSE /\ tasks' = tasks
                   /\ hist' = [hist EXCEPT ![r].threw = @ + 1, ![r].reported = @ + 1]
                   /\ calls' = [settleSlot(calls, k, r, executeOutcome(Top.kind = "itask"))
                                  EXCEPT ![k].threw = @ + 1]
    /\ stack' = IF Top.kind = "itask" THEN Front(stack)
                ELSE [stack EXCEPT ![Len(stack)].idx = @ + 1,
                                   ![Len(stack)].phase = "loop"]
    /\ UNCHANGED <<nextId, heap, signals, globals, groupCache, conns, timers,
                   nextTimer, clock, emits, reentered, thrown, demoStore>>

\* the loop of emit or emitAsync is over: emit returns, emitAsync reaches
\* its await and returns its promise
InstEmitReturn ==
    /\ stack # <<>>
    /\ Top.kind = "inst"
    /\ Top.phase = "loop"
    /\ Top.idx > Len(Top.snap)
    /\ stack' = IF Depth = 1 THEN <<>>
                ELSE [Front(stack) EXCEPT ![Depth - 1].fired = @ \o Top.fired]
    /\ calls' = IF Top.call = 0 THEN calls ELSE [calls EXCEPT ![Top.call].looped = TRUE]
    /\ UNCHANGED <<nextId, heap, signals, globals, groupCache, conns, timers,
                   nextTimer, clock, emits, reentered, hist, thrown, tasks, demoStore>>

\* the timer host runs the closure of a queued slot on a later turn
InstRunTask ==
    /\ stack = <<>>
    /\ ~Settling
    /\ tasks # <<>>
    /\ Head(tasks).kind = "slot"
    /\ tasks' = Tail(tasks)
    /\ LET t == Head(tasks)
           frame == [kind |-> "itask", sig |-> This, args |-> t.args, snap |-> <<t.ref>>,
                     idx |-> 1, cur |-> t.ref, phase |-> "loop", fired |-> <<>>,
                     via |-> 0, start |-> {t.ref}, em |-> t.em, call |-> t.call]
           res == invoke(store, <<frame>>, hist, t.ref, t.args)
       IN  /\ stack' = res.stack
           /\ hist' = res.hist
           /\ calls' = IF t.call = 0 THEN calls ELSE ranSlot(calls, t.call, t.ref, t.args)
    /\ UNCHANGED <<nextId, heap, signals, globals, groupCache, conns, timers,
                   nextTimer, clock, emits, reentered, thrown, demoStore>>

\* the callback run by the closure of a queued slot returns: the turn ends,
\* and in emitAsync the finally block resolves the slot promise
InstTaskReturn ==
    /\ stack # <<>>
    /\ Top.kind = "itask"
    /\ Top.phase = "cb"
    /\ stack' = Front(stack)
    /\ calls' = IF Top.call = 0 THEN calls
                ELSE settleSlot(calls, Top.call, Top.cur, "resolved")
    /\ UNCHANGED <<nextId, heap, signals, globals, groupCache, conns, timers,
                   nextTimer, clock, emits, reentered, hist, thrown, tasks, demoStore>>

\* the timer host runs the closure that emit's catch block scheduled
RunReport ==
    /\ stack = <<>>
    /\ ~Settling
    /\ tasks # <<>>
    /\ Head(tasks).kind = "report"
    /\ tasks' = Tail(tasks)
    /\ hist' = [hist EXCEPT ![Head(tasks).ref].reported = @ + 1]
    /\ UNCHANGED <<nextId, heap, signals, globals, groupCache, conns, stack, timers,
                   nextTimer, clock, emits, reentered, thrown, calls, demoStore>>

\* the continuation of emitAsync call k after await Promise.all(promises):
\* the promise that the call returned settles
AsyncSettle(k) ==
    /\ stack = <<>>
    /\ k \in DOMAIN calls
    /\ calls[k].looped
    /\ calls[k].state = "pending"
    /\ promiseAll(calls[k].slots) # "pending"
    /\ calls' = [calls EXCEPT ![k].state = promiseAll(calls[k].slots)]
    /\ UNCHANGED <<nextId, heap, signals, globals, groupCache, conns, stack, timers,
                   nextTimer, clock, emits, reentered, hist, thrown, tasks, demoStore>>

(* ------------------- the static Signal of part_004 --------------------- *)
(* _slots, a map identity -> slot array, is held in `signals` (the per-     *)
(* identity group map stays empty) and _groupSlotMap in `globals`           *)

\* _addToGroupMap
addToGroupMap(glob, s, id, g) ==
    LET glob0 == IF g \in DOMAIN glob THEN glob ELSE MapSet(glob, g, {})
    IN  MapSet(glob0, g, glob0[g] \cup {[signalName |-> s, slotId |-> id]})

\* _removeFromGroupMap
removeFromGroupMap(glob, s, id, g) ==
    IF g \notin DOMAIN glob THEN glob
    ELSE LET groupSlots == glob[g] \ {[signalName |-> s, slotId |-> id]}
         IN  IF groupSlots = {} THEN MapDel(glob, g) ELSE MapSet(glob, g, groupSlots)

\* the store after addSlot of part_004 pushed slot object r with the given id
gmap_addSlot(S, r, s, id, group) ==
    LET sigs0 == IF s \in DOMAIN S.signals THEN S.signals
                 ELSE MapSet(S.signals, s, [slots |-> <<>>, groups |-> EmptyMap])
        sigs1 == MapSet(sigs0, s, [sigs0[s] EXCEPT !.slots = Append(@, r)])
        glob1 == IF TruthyStr(group) THEN addToGroupMap(S.globals, s, id, group)
                 ELSE S.globals
    IN  [signals |-> sigs1, globals |-> glob1, groupCache |-> invalidateCache]

\* the group clean-up done inside the filter of disconnectById of part_004
RECURSIVE gmap_ungroupById(_, _, _, _, _)
gmap_ungroupById(glob, hp, s, slots, id) ==
    IF slots = <<>> THEN glob
    ELSE LET slot == hp[Head(slots)]
             glob1 == IF slot.id = id /\ TruthyStr(slot.group)
                      THEN removeFromGroupMap(glob, s, id, slot.group)
                      ELSE glob
         IN  gmap_ungroupById(glob1, hp, s, Tail(slots), id)

\* Signal.disconnectById of part_004
gmap_disconnectById(S, hp, s, id) ==
    IF s \notin DOMAIN S.signals THEN S
    ELSE LET slots == S.signals[s].slots
             glob1 == gmap_ungroupById(S.globals, hp, s, slots, id)
             updatedSlots == SelectSeq(slots, LAMBDA r : hp[r].id # id)
             sigs1 == IF Len(updatedSlots) > 0
                      THEN MapSet(S.signals, s, [S.signals[s] EXCEPT !.slots = updatedSlots])
                      ELSE MapDel(S.signals, s)
         IN  [signals |-> sigs1, globals |-> glob1, groupCache |-> invalidateCache]

\* the predicate of the filter in Signal.disconnect of part_004: the slots it keeps
gmap_keeps(slot, slotFunc, target) ==
    \/ slot.callback # slotFunc
    \/ (TruthyStr(target) /\ slot.target # target)

\* Signal.disconnect(signal, slotFunc, target) of part_004
gmap_disconnect(S, hp, s, slotFunc, target) ==
    IF s \notin DOMAIN S.signals THEN S
    ELSE LET slots == S.signals[s].slots
             updatedSlots == SelectSeq(slots, LAMBDA r : gmap_keeps(hp[r], slotFunc, target))
             sigs1 == IF Len(updatedSlots) > 0
                      THEN MapSet(S.signals, s, [S.signals[s] EXCEPT !.slots = updatedSlots])
                      ELSE MapDel(S.signals, s)
         IN  [S EXCEPT !.signals = sigs1]

\* the loop of disconnectByGroup of part_004 over the copy of the group's pairs
RECURSIVE gmap_disconnectEach(_, _, _)
gmap_disconnectEach(S, hp, pairs) ==
    IF pairs = {} THEN S
    ELSE LET p == CHOOSE q \in pairs : TRUE
         IN  gmap_disconnectEach(gmap_disconnectById(S, hp, p.signalName, p.slotId),
                                 hp, pairs \ {p})

\* Signal.disconnectByGroup of part_004, for a valid group name
gmap_disconnectByGroup(S, hp, g) ==
    IF g \notin DOMAIN S.globals THEN S
    ELSE LET S1 == gmap_disconnectEach(S, hp, S.globals[g])
             glob2 == IF g \in DOMAIN S1.globals /\ S1.globals[g] = {}
                      THEN MapDel(S1.globals, g) ELSE S1.globals
         IN  [S1 EXCEPT !.globals = glob2, !.groupCache = invalidateCache]

\* Signal.getConnectionCountByGroup of part_004
gmap_getConnectionCountByGroup(glob, g) ==
    IF ~TruthyStr(g) THEN 0
    ELSE IF g \in DOMAIN glob THEN Cardinality(glob[g]) ELSE 0

\* Signal.hasConnectionsInGroup of part_004
gmap_hasConnectionsInGroup(glob, g) ==
    IF ~TruthyStr(g) THEN FALSE
    ELSE IF g \in DOMAIN glob THEN Cardinality(glob[g]) > 0 ELSE FALSE

\* Signal.connect(signal, slotFunc, target, options) of part_004, with valid
\* arguments
GMapConnect(s, f, t, o) ==
    /\ CanCall
    /\ LET id == nextId + 1
           r == Len(heap) + 1
           slot == newSlot(id, boundCallback(userFunc(f), t), t, o)
           S == gmap_addSlot(store, r, s, id, slot.group)
       IN  /\ nextId' = id
           /\ heap' = Append(heap, slot)
           /\ signals' = S.signals
           /\ globals' = S.globals
           /\ groupCache' = S.groupCache
           /\ conns' = Append(conns, [id |-> id, signalName |-> s, connected |-> TRUE])
           /\ hist' = Append(hist, newHist)
    /\ UNCHANGED <<stack, timers, nextTimer, clock, emits, reentered, thrown, tasks,
                   calls, demoStore>>

\* Signal.disconnect(signal, slotFunc, target) of part_004
GMapDisconnect(s, f, t) ==
    /\ CanCall
    /\ LET S == gmap_disconnect(store, heap, s, userFunc(f), t)
       IN  /\ signals' = S.signals
           /\ globals' = S.globals
           /\ groupCache' = S.groupCache
    /\ UNCHANGED <<nextId, heap, conns, stack, timers, nextTimer, clock, emits,
                   reentered, hist, thrown, tasks, calls, demoStore>>

\* Connection.disconnect of part_004: the closure calls disconnectById
GMapConnectionDisconnect(r) ==
    /\ CanCall
    /\ r \in DOMAIN conns
    /\ conns[r].connected
    /\ LET S == gmap_disconnectById(store, heap, conns[r].signalName, conns[r].id)
       IN  /\ signals' = S.signals
           /\ globals' = S.globals
           /\ groupCache' = S.groupCache
    /\ conns' = [conns EXCEPT ![r].connected = FALSE]
    /\ UNCHANGED <<nextId, heap, stack, timers, nextTimer, clock, emits,
                   reentered, hist, thrown, tasks, calls, demoStore>>

\* Signal.disconnectByGroup(groupName) of part_004
GMapDisconnectByGroup(g) ==
    /\ CanCall
    /\ TruthyStr(g)
    /\ LET S == gmap_disconnectByGroup(store, heap, g)
       IN  /\ signals' = S.signals
           /\ globals' = S.globals
           /\ groupCache' = S.groupCache
    /\ UNCHANGED <<nextId, heap, conns, stack, timers, nextTimer, clock, emits,
                   reentered, hist, thrown, tasks, calls, demoStore>>

(* ------------- the simple static Signal of qt-signal2.ts -------------- *)
(* the second class of the file: _slots, a map identity -> slot array, is   *)
(* held in `signals`; it has no groups, no throttle and no debounce         *)

\* the predicate of the filter in Signal.disconnect of the simple class: the
\* slots it keeps
simple_keeps(slot, slotFunc, target) ==
    \/ slot.callback # slotFunc
    \/ (TruthyStr(target) /\ slot.target # target)

\* Signal.disconnect(signal, slotFunc, target) of the simple class
simple_disconnect(S, hp, s, slotFunc, target) ==
    IF s \notin DOMAIN S.signals THEN S
    ELSE LET slots == S.signals[s].slots
             updatedSlots == SelectSeq(slots, LAMBDA r : simple_keeps(hp[r], slotFunc, target))
             sigs1 == IF Len(updatedSlots) > 0
                      THEN MapSet(S.signals, s, [S.signals[s] EXCEPT !.slots = updatedSlots])
                      ELSE MapDel(S.signals, s)
         IN  [S EXCEPT !.signals = sigs1]

\* the store after addSlot of the simple class pushed slot object r
simple_addSlot(S, r, s) ==
    LET sigs0 == IF s \in DOMAIN S.signals THEN S.signals
                 ELSE MapSet(S.signals, s, [slots |-> <<>>, groups |-> EmptyMap])
    IN  [S EXCEPT !.signals = MapSet(sigs0, s, [sigs0[s] EXCEPT !.slots = Append(@, r)])]

\* Signal.connect(signal, slotFunc, undefined, options) of the simple class:
\* with no target the callback stored is slotFunc itself
SimpleConnect(s, f, o) ==
    /\ CanCall
    /\ LET id == nextId + 1
           r == Len(heap) + 1
           opts == [o EXCEPT !.group = NoGroup, !.throttle = 0, !.debounce = 0]
           slot == newSlot(id, userFunc(f), NoTarget, opts)
           S == simple_addSlot(store, r, s)
       IN  /\ nextId' = id
           /\ heap' = Append(heap, slot)
           /\ signals' = S.signals
           /\ conns' = Append(conns, [id |-> id, signalName |-> s, connected |-> TRUE])
           /\ hist' = Append(hist, newHist)
    /\ UNCHANGED <<globals, groupCache, stack, timers, nextTimer, clock, emits,
                   reentered, thrown, tasks, calls, demoStore>>

\* Connection.disconnect of the simple class: the closure built by addSlot
\* calls disconnect(signalName, callback, target)
SimpleConnectionDisconnect(r) ==
    /\ CanCall
    /\ r \in DOMAIN conns
    /\ conns[r].connected
    /\ LET S == simple_disconnect(store, heap, conns[r].signalName,
                                  heap[r].callback, heap[r].target)
       IN  signals' = S.signals
    /\ conns' = [conns EXCEPT ![r].connected = FALSE]
    /\ UNCHANGED <<nextId, heap, globals, groupCache, stack, timers, nextTimer, clock,
                   emits, reentered, hist, thrown, tasks, calls, demoStore>>

\* Signal.emit of the simple class, up to the snapshot
SimpleEmit(s, a) ==
    /\ CanCall
    /\ LET slots == SlotsOf(signals, s)
           frame == [kind |-> "simple", sig |-> s, args |-> a, snap |-> snapshot(slots),
                     idx |-> 1, cur |-> 0, phase |-> "loop", fired |-> <<>>, via |-> 0,
                     start |-> Range(slots), em |-> emits + 1, call |-> 0]
       IN  /\ stack' = IF Len(slots) = 0 THEN stack ELSE Append(stack, frame)
           /\ hist' = sawEmit(hist, slots)
    /\ emits' = emits + 1
    /\ reentered' = (reentered \/ stack # <<>>)
    /\ UNCHANGED <<nextId, heap, signals, globals, groupCache, conns, timers,
                   nextTimer, clock, thrown, tasks, calls, demoStore>>

\* one turn of the loop of Signal.emit of the simple class: a once slot is
\* disconnected by its callback and target, then the callback is called, or
\* handed to setTimeout(..., 0) when the slot is queued
SimpleExecuteSlot ==
    /\ stack # <<>>
    /\ Top.kind = "simple"
    /\ Top.phase = "loop"
    /\ Top.idx <= Len(Top.snap)
    /\ LET r == Top.snap[Top.idx]
           slot == heap[r]
           S == IF slot.once
                THEN simple_disconnect(store, heap, Top.sig, slot.callback, slot.target)
                ELSE store
       IN  /\ signals' = S.signals
           /\ IF slot.queued
              THEN /\ tasks' = schedule(tasks, [ref |-> r, args |-> Top.args,
                                                em |-> Top.em, call |-> 0])
                   /\ stack' = [stack EXCEPT ![Len(stack)].idx = @ + 1,
                                             ![Len(stack)].cur = r]
                   /\ hist' = hist
              ELSE LET res == invoke(S, stack, hist, r, Top.args)
                   IN  /\ stack' = res.stack
                       /\ hist' = res.hist
                       /\ tasks' = tasks
    /\ UNCHANGED <<nextId, heap, globals, groupCache, conns, timers, nextTimer, clock,
                   emits, reentered, thrown, calls, demoStore>>

\* the callback called by executeCallback returns
SimpleCallbackReturn ==
    /\ stack # <<>>
    /\ Top.kind = "simple"
    /\ Top.phase = "cb"
    /\ stack' = [stack EXCEPT ![Len(stack)].idx = @ + 1, ![Len(stack)].phase = "loop"]
    /\ UNCHANGED <<nextId, heap, signals, globals, groupCache, conns, timers,
                   nextTimer, clock, emits, reentered, hist, thrown, tasks, calls, demoStore>>

\* the loop of Signal.emit of the simple class is over
SimpleEmitReturn ==
    /\ stack # <<>>
    /\ Top.kind = "simple"
    /\ Top.phase = "loop"
    /\ Top.idx > Len(Top.snap)
    /\ stack' = IF Depth = 1 THEN <<>>
                ELSE [Front(stack) EXCEPT ![Depth - 1].fired = @ \o Top.fired]
    /\ UNCHANGED <<nextId, heap, signals, globals, groupCache, conns, timers,
                   nextTimer, clock, emits, reentered, hist, thrown, tasks, calls, demoStore>>

(* ------- the two grouped static Signal classes driven in lock step ----- *)
(* the first class of qt-signal2.ts works on `signals`, `globals` and       *)
(* `groupCache`; the class of qt-signal-group-demo.ts works on `demoStore`,  *)
(* with its group index as written: group -> identity -> set of ids.  Both  *)
(* classes draw their ids from a counter that starts at 1 and goes through  *)
(* the same values, so nextId, the slot objects and the handles are shared  *)

\* Signal.getSignalsInGroup of the first class
getSignalsInGroup(glob, g) ==
    IF ~TruthyStr(g) THEN {}
    ELSE IF g \notin DOMAIN glob THEN {}
    ELSE {p.signalName : p \in glob[g]}

\* addSlot of the demo class: the entry of id in _globalGroups
lock_addToGlobalGroups(gg, s, id, g) ==
    LET gg0 == IF g \in DOMAIN gg THEN gg ELSE MapSet(gg, g, EmptyMap)
        data == IF s \in DOMAIN gg0[g] THEN gg0[g] ELSE MapSet(gg0[g], s, {})
    IN  MapSet(gg0, g, MapSet(data, s, data[s] \cup {id}))

\* mutant of lock_removeFromGlobalGroups: an identity whose set became empty
\* stays in the map of the group
lock_removeFromGlobalGroups_keepEmpty(gg, s, id, g) ==
    IF g \notin DOMAIN gg \/ s \notin DOMAIN gg[g] THEN gg
    ELSE MapSet(gg, g, MapSet(gg[g], s, gg[g][s] \ {id}))

\* disconnectById of the demo class: the removal of id from _globalGroups
lock_removeFromGlobalGroups(gg, s, id, g) ==
    IF g \notin DOMAIN gg \/ s \notin DOMAIN gg[g] THEN gg
    ELSE LET signalSlots == gg[g][s] \ {id}
         IN  IF signalSlots # {} THEN MapSet(gg, g, MapSet(gg[g], s, signalSlots))
             ELSE IF DOMAIN gg[g] = {s} THEN MapDel(gg, g)
             ELSE MapSet(gg, g, MapDel(gg[g], s))

\* the store of the demo class after addSlot pushed slot object r
lock_addSlot(T, r, s, id, group) ==
    LET sigs0 == getSignalData(T.signals, s)
        sigs1 == MapSet(sigs0, s, [sigs0[s] EXCEPT !.slots = Append(@, r)])
        old == IF group \in DOMAIN sigs1[s].groups THEN sigs1[s].groups[group] ELSE {}
        sigs2 == IF TruthyStr(group)
                 THEN MapSet(sigs1, s, [sigs1[s] EXCEPT
                                          !.groups = MapSet(@, group, old \cup {id})])
                 ELSE sigs1
        gg1 == IF TruthyStr(group) THEN lock_addToGlobalGroups(T.globalGroups, s, id, group)
               ELSE T.globalGroups
    IN  [signals |-> sigs2, globalGroups |-> gg1, groupCache |-> invalidateCache]

\* Signal.disconnectById of the demo class
lock_disconnectById(T, hp, s, id) ==
    IF s \notin DOMAIN T.signals THEN T
    ELSE
    LET slotIndex == findIndex(hp, T.signals[s].slots, id)
    IN  IF slotIndex = 0 THEN T
        ELSE
        LET group == hp[T.signals[s].slots[slotIndex]].group
            spliced == Splice1(T.signals[s].slots, slotIndex)
            sigs1 == MapSet(T.signals, s, [T.signals[s] EXCEPT !.slots = spliced])
            groupSlots == IF group \in DOMAIN sigs1[s].groups
                          THEN sigs1[s].groups[group] \ {id} ELSE {}
            sigs2 == IF TruthyStr(group) /\ group \in DOMAIN sigs1[s].groups
                     THEN MapSet(sigs1, s, [sigs1[s] EXCEPT !.groups =
                                              IF groupSlots = {} THEN MapDel(@, group)
                                              ELSE MapSet(@, group, groupSlots)])
                     ELSE sigs1
            gg1 == IF TruthyStr(group)
                   THEN lock_removeFromGlobalGroups(T.globalGroups, s, id, group)
                   ELSE T.globalGroups
            sigs3 == IF Len(spliced) = 0 THEN MapDel(sigs2, s) ELSE sigs2
        IN  [signals |-> sigs3, globalGroups |-> gg1, groupCache |-> invalidateCache]

\* the loop of disconnectByGroup of the demo class over slotsToDisconnect
RECURSIVE lock_disconnectEach(_, _, _)
lock_disconnectEach(T, hp, pairs) ==
    IF pairs = {} THEN T
    ELSE LET p == CHOOSE q \in pairs : TRUE
         IN  lock_disconnectEach(lock_disconnectById(T, hp, p.signalName, p.slotId),
                                 hp, pairs \ {p})

\* Signal.disconnectByGroup of the demo class, for a valid group name
lock_disconnectByGroup(T, hp, g) ==
    IF g \notin DOMAIN T.globalGroups THEN T
    ELSE LET data == T.globalGroups[g]
             slotsToDisconnect ==
                 UNION {{[signalName |-> s, slotId |-> i] : i \in data[s]} :
                           s \in DOMAIN data}
             T1 == lock_disconnectEach(T, hp, slotsToDisconnect)
         IN  [T1 EXCEPT !.groupCache = invalidateCache]

\* Signal.getConnectionCountByGroup of the demo class
RECURSIVE lock_sumSizes(_, _)
lock_sumSizes(data, names) ==
    IF names = {} THEN 0
    ELSE LET s == CHOOSE x \in names : TRUE
         IN  Cardinality(data[s]) + lock_sumSizes(data, names \ {s})

lock_getConnectionCountByGroup(gg, g) ==
    IF ~TruthyStr(g) THEN 0
    ELSE IF g \notin DOMAIN gg THEN 0
    ELSE lock_sumSizes(gg[g], DOMAIN gg[g])

\* Signal.hasConnectionsInGroup of the demo class
lock_hasConnectionsInGroup(gg, g) ==
    IF ~TruthyStr(g) THEN FALSE
    ELSE IF g \notin DOMAIN gg THEN FALSE
    ELSE \E s \in DOMAIN gg[g] : Cardinality(gg[g][s]) > 0

\* Signal.getAllGroups of the demo class at time now: its result and the cache it leaves
lock_getAllGroups(T, now) ==
    IF T.groupCache.defined /\ (now - T.groupCache.lastUpdateTime) < CACHE_TTL
    THEN [result |-> T.groupCache.groups, cache |-> T.groupCache]
    ELSE LET groups == DOMAIN T.globalGroups
         IN  [result |-> groups,
              cache |-> [defined |-> TRUE, groups |-> groups, lastUpdateTime |-> now]]

\* Signal.getSignalsInGroup of the demo class
lock_getSignalsInGroup(gg, g) ==
    IF ~TruthyStr(g) THEN {}
    ELSE IF g \notin DOMAIN gg THEN {}
    ELSE DOMAIN gg[g]

\* connect(s, f, undefined, o), with valid arguments, called on both classes
LockConnect(s, f, o) ==
    /\ CanCall
    /\ LET id == nextId + 1
           r == Len(heap) + 1
           slot == newSlot(id, userFunc(f), NoTarget, o)
           S == addSlot(store, r, s, id, slot.group)
       IN  /\ nextId' = id
           /\ heap' = Append(heap, slot)
           /\ signals' = S.signals
           /\ globals' = S.globals
           /\ groupCache' = S.groupCache
           /\ demoStore' = lock_addSlot(demoStore, r, s, id, slot.group)
           /\ conns' = Append(conns, [id |-> id, signalName |-> s, connected |-> TRUE])
           /\ hist' = Append(hist, newHist)
    /\ UNCHANGED <<stack, timers, nextTimer, clock, emits, reentered, thrown, tasks,
                   calls>>

\* disconnect() called on the handles that the two classes returned for the
\* same connect call
LockConnectionDisconnect(r) ==
    /\ CanCall
    /\ r \in DOMAIN conns
    /\ conns[r].connected
    /\ LET S == disconnectById(store, heap, conns[r].signalName, conns[r].id)
       IN  /\ signals' = S.signals
           /\ globals' = S.globals
           /\ groupCache' = S.groupCache
    /\ demoStore' = lock_disconnectById(demoStore, heap, conns[r].signalName, conns[r].id)
    /\ conns' = [conns EXCEPT ![r].connected = FALSE]
    /\ UNCHANGED <<nextId, heap, stack, timers, nextTimer, clock, emits, reentered,
                   hist, thrown, tasks, calls>>

\* disconnectById(s, id) called on both classes
LockDisconnectById(s, id) ==
    /\ CanCall
    /\ LET S == disconnectById(store, heap, s, id)
       IN  /\ signals' = S.signals
           /\ globals' = S.globals
           /\ groupCache' = S.groupCache
    /\ demoStore' = lock_disconnectById(demoStore, heap, s, id)
    /\ UNCHANGED <<nextId, heap, conns, stack, timers, nextTimer, clock, emits,
                   reentered, hist, thrown, tasks, calls>>

\* disconnectByGroup(g), with a valid group name, called on both classes
LockDisconnectByGroup(g) ==
    /\ CanCall
    /\ TruthyStr(g)
    /\ LET S == disconnectByGroup(store, heap, g)
       IN  /\ signals' = S.signals
           /\ globals' = S.globals
           /\ groupCache' = S.groupCache
    /\ demoStore' = lock_disconnectByGroup(demoStore, heap, g)
    /\ UNCHANGED <<nextId, heap, conns, stack, timers, nextTimer, clock, emits,
                   reentered, hist, thrown, tasks, calls>>

\* reset() called on both classes
LockReset ==
    /\ CanCall
    /\ signals' = EmptyMap
    /\ globals' = EmptyMap
    /\ groupCache' = invalidateCache
    /\ demoStore' = [signals |-> EmptyMap, globalGroups |-> EmptyMap,
                     groupCache |-> invalidateCache]
    /\ nextId' = 1
    /\ UNCHANGED <<heap, conns, stack, timers, nextTimer, clock, emits, reentered,
                   hist, thrown, tasks, calls>>

\* getAllGroups() called on both classes: each fills its cache
LockGetAllGroups ==
    /\ CanCall
    /\ groupCache' = getAllGroups(store, clock).cache
    /\ demoStore' = [demoStore EXCEPT !.groupCache = lock_getAllGroups(demoStore, clock).cache]
    /\ UNCHANGED <<nextId, heap, signals, globals, conns, stack, timers, nextTimer,
                   clock, emits, reentered, hist, thrown, tasks, calls>>

(* --------------------------- specifications ---------------------------- *)

opt(once, group, throttle, debounce) ==
    [once |-> once, queued |-> FALSE, group |-> group,
     throttle |-> throttle, debounce |-> debounce]

\* Dispatch: connect (plain and once), the Connection handles and emit on one
\* identity, called between emissions and from inside running callbacks
DispatchOptions == {opt(once, NoGroup, 0, 0) : once \in BOOLEAN}

Next ==
    \/ /\ Len(heap) < MaxSlots
       /\ \E o \in DispatchOptions : Connect("A", "f", NoTarget, o)
    \/ \E r \in DOMAIN conns : ConnectionDisconnect(r)
    \/ /\ emits < MaxEmits
       /\ Depth < MaxDepth
       /\ \E a \in Args : Emit("A", a)
    \/ ExecuteSlot
    \/ CallbackReturn
    \/ EmitReturn

Spec == Init /\ [][Next]_vars

\* Groups: connections with and without a group and a target on two
\* identities, every disconnect variant and emit, called between emissions
GroupConnects ==
    {<<"A", "g1">>, <<"B", "g1">>, <<"A", "g2">>, <<"A", NoGroup>>}

NextGroups ==
    \/ /\ stack = <<>>
       /\ Len(heap) < MaxGroupSlots
       /\ \E c \in GroupConnects : Connect(c[1], "f", NoTarget, opt(FALSE, c[2], 0, 0))
    \/ /\ stack = <<>>
       /\ \E s \in Names : Disconnect(s, "f", NoTarget)
    \/ /\ stack = <<>>
       /\ \E g \in Groups : DisconnectByGroup(g)
    \/ /\ stack = <<>>
       /\ \E r \in DOMAIN conns : ConnectionDisconnect(r)
    \/ /\ stack = <<>>
       /\ emits < MaxGroupEmits
       /\ \E s \in Names : Emit(s, 1)
    \/ ExecuteSlot
    \/ CallbackReturn
    \/ EmitReturn

SpecGroups == Init /\ [][NextGroups]_vars

\* Timed: throttled and debounced connections on one identity, emit called
\* between tasks and from inside running callbacks, the clock and the timer host
TimedOptions == {opt(FALSE, NoGroup, Window, 0), opt(FALSE, NoGroup, 0, Window)}

NextTimed ==
    \/ /\ Len(heap) < MaxTimedSlots
       /\ stack = <<>>
       /\ \E o \in TimedOptions : Connect("A", "f", NoTarget, o)
    \/ /\ emits < MaxTimedEmits
       /\ Depth < MaxDepth
       /\ \E a \in Args : Emit("A", a)
    \/ ExecuteSlot
    \/ CallbackReturn
    \/ EmitReturn
    \/ \E t \in timers : TimerFire(t)
    \/ Tick

SpecTimed == Init /\ [][NextTimed]_vars

\* Forwarding: plain connections on two identities and once connections on
\* the target, forwarders from A to B with and without a transform, the Connection handles and emit,
\* called between emissions
ForwardConnects == {<<"A", FALSE>>, <<"B", FALSE>>, <<"B", TRUE>>}

NextForward ==
    \/ /\ stack = <<>>
       /\ Len(heap) < MaxFwdSlots
       /\ \E c \in ForwardConnects : Connect(c[1], "f", NoTarget, opt(c[2], NoGroup, 0, 0))
    \/ /\ stack = <<>>
       /\ Len(heap) < MaxFwdSlots
       /\ \E tr \in Transforms : ForwardTo("A", "B", opt(FALSE, NoGroup, 0, 0), tr)
    \/ /\ stack = <<>>
       /\ \E r \in DOMAIN conns : ConnectionDisconnect(r)
    \/ /\ stack = <<>>
       /\ emits < MaxFwdEmits
       /\ \E s \in Names, a \in Args : Emit(s, a)
    \/ ExecuteSlot
    \/ CallbackReturn
    \/ EmitReturn

SpecForward == Init /\ [][NextForward]_vars

\* Errors: plain and once connections with and without a target on one
\* identity, callbacks that return or throw, emit called between emissions
ErrorTargets == {NoTarget, "t", Bare}

NextErrors ==
    \/ /\ stack = <<>>
       /\ Len(heap) < MaxErrSlots
       /\ \E t \in ErrorTargets, o \in DispatchOptions : Connect("A", "f", t, o)
    \/ /\ stack = <<>>
       /\ emits < MaxErrEmits
       /\ \E a \in Args : Emit("A", a)
    \/ ExecuteSlot
    \/ CallbackReturn
    \/ CallbackThrow
    \/ EmitReturn

SpecErrors == Init /\ [][NextErrors]_vars

\* Targets: plain connections of two callbacks with and without a target on
\* one identity and disconnect by callback, called between emissions
Funcs == {"f", "g"}

NextTargets ==
    \/ /\ stack = <<>>
       /\ Len(heap) < MaxTargetSlots
       /\ \E f \in Funcs, t \in Targets : Connect("A", f, t, opt(FALSE, NoGroup, 0, 0))
    \/ /\ stack = <<>>
       /\ \E f \in Funcs, t \in Targets : Disconnect("A", f, t)

SpecTargets == Init /\ [][NextTargets]_vars

\* Calls: connect with valid and invalid arguments, every disconnect variant
\* with known and unknown identities, ids and group names, called between
\* emissions
CallConnects ==
    {<<"A", "f", "g1">>, <<"A", "f", NoGroup>>, <<"B", "f", "g1">>,
     <<"", "f", "g1">>, <<"A", NotAFunction, "g1">>}

NextCalls ==
    \/ /\ Len(heap) < MaxCallSlots
       /\ thrown < MaxThrows
       /\ \E c \in CallConnects : Connect(c[1], c[2], NoTarget, opt(FALSE, c[3], 0, 0))
    \/ \E s \in Names : Disconnect(s, "f", NoTarget)
    \/ \E s \in Names, id \in 2..(nextId + 1) : DisconnectById(s, id)
    \/ /\ thrown < MaxThrows
       /\ \E g \in Groups \cup {""} : DisconnectByGroup(g)
    \/ \E r \in DOMAIN conns : ConnectionDisconnect(r)

SpecCalls == Init /\ [][NextCalls]_vars

\* Reset: plain, once and grouped connections on one identity, reset, the
\* Connection handles, disconnect by callback and by group and emit, called
\* between emissions
ResetOptions ==
    {opt(FALSE, NoGroup, 0, 0), opt(TRUE, NoGroup, 0, 0), opt(FALSE, "g1", 0, 0)}

NextReset ==
    \/ /\ stack = <<>>
       /\ Len(heap) < MaxResetSlots
       /\ \E o \in ResetOptions : Connect("A", "f", NoTarget, o)
    \/ /\ stack = <<>>
       /\ Reset
    \/ /\ stack = <<>>
       /\ \E r \in DOMAIN conns : ConnectionDisconnect(r)
    \/ /\ stack = <<>>
       /\ Disconnect("A", "f", NoTarget)
    \/ /\ stack = <<>>
       /\ DisconnectByGroup("g1")
    \/ /\ stack = <<>>
       /\ emits < MaxResetEmits
       /\ Emit("A", 1)
    \/ ExecuteSlot
    \/ CallbackReturn
    \/ EmitReturn

SpecReset == Init /\ [][NextReset]_vars

\* Cache: grouped plain and once connections on one identity, every way of
\* removing them, emit, reset and getAllGroups, called between emissions, with
\* waits shorter and not shorter than the life of the cache
CacheOptions == {opt(once, g, 0, 0) : once \in BOOLEAN, g \in Groups}
CacheWaits == {CACHE_TTL - 1, CACHE_TTL}

NextCache ==
    \/ /\ stack = <<>>
       /\ Len(heap) < MaxCacheSlots
       /\ \E o \in CacheOptions : Connect("A", "f", NoTarget, o)
    \/ /\ stack = <<>>
       /\ Reset
    \/ /\ stack = <<>>
       /\ \E r \in DOMAIN conns : ConnectionDisconnect(r)
    \/ /\ stack = <<>>
       /\ Disconnect("A", "f", NoTarget)
    \/ /\ stack = <<>>
       /\ \E id \in 2..nextId : DisconnectById("A", id)
    \/ /\ stack = <<>>
       /\ \E g \in Groups : DisconnectByGroup(g)
    \/ /\ stack = <<>>
       /\ emits < MaxCacheEmits
       /\ Emit("A", 1)
    \/ ExecuteSlot
    \/ CallbackReturn
    \/ EmitReturn
    \/ /\ stack = <<>>
       /\ GetAllGroups
    \/ \E d \in CacheWaits : clock + d <= MaxCacheClock /\ Wait(d)

SpecCache == Init /\ [][NextCache]_vars

\* Queued: connections with and without queued:true on one identity and
\* emit, called between emissions
QueuedOptions == {[opt(FALSE, NoGroup, 0, 0) EXCEPT !.queued = q] : q \in BOOLEAN}

NextQueued ==
    \/ /\ stack = <<>>
       /\ Len(heap) < MaxQueuedSlots
       /\ \E o \in QueuedOptions : Connect("A", "f", NoTarget, o)
    \/ /\ stack = <<>>
       /\ emits < MaxQueuedEmits
       /\ \E a \in Args : Emit("A", a)
    \/ ExecuteSlot
    \/ CallbackReturn
    \/ EmitReturn

SpecQueued == Init /\ [][NextQueued]_vars

\* Debounce: debounced connections with and without a throttle on one
\* identity, their handles, emit called between tasks, the clock and the
\* timer host
DebounceOptions == {opt(FALSE, NoGroup, 0, Window), opt(FALSE, NoGroup, Window, Window)}

NextDebounce ==
    \/ /\ stack = <<>>
       /\ Len(heap) < MaxDebSlots
       /\ \E o \in DebounceOptions : Connect("A", "f", NoTarget, o)
    \/ /\ stack = <<>>
       /\ \E r \in DOMAIN conns : ConnectionDisconnect(r)
    \/ /\ stack = <<>>
       /\ emits < MaxDebEmits
       /\ \E a \in Args : Emit("A", a)
    \/ ExecuteSlot
    \/ CallbackReturn
    \/ EmitReturn
    \/ \E t \in timers : TimerFire(t)
    \/ Tick

SpecDebounce == Init /\ [][NextDebounce]_vars

\* DebounceErrors: debounced connections on one identity, emit called between
\* tasks, callbacks that return or throw, the clock and the timer host
NextDebounceErrors ==
    \/ /\ stack = <<>>
       /\ Len(heap) < MaxDebErrSlots
       /\ Connect("A", "f", NoTarget, opt(FALSE, NoGroup, 0, Window))
    \/ /\ stack = <<>>
       /\ emits < MaxDebErrEmits
       /\ \E a \in Args : Emit("A", a)
    \/ ExecuteSlot
    \/ CallbackReturn
    \/ CallbackThrow
    \/ EmitReturn
    \/ \E t \in timers : TimerFire(t)
    \/ Tick

SpecDebounceErrors == Init /\ [][NextDebounceErrors]_vars

\* Forwarding with options: forwarders from A to B connected with once:true,
\* with group g1, with both or with neither, slots of B with group g2 or
\* with no group, and disconnectByGroup and emit called between emissions
ForwardOptions == {opt(once, g, 0, 0) : once \in BOOLEAN, g \in {NoGroup, "g1"}}

NextForwardOptions ==
    \/ /\ stack = <<>>
       /\ Len(heap) < MaxFwdOptSlots
       /\ \E o \in ForwardOptions : ForwardTo("A", "B", o, "none")
    \/ /\ stack = <<>>
       /\ Len(heap) < MaxFwdOptSlots
       /\ \E g \in {NoGroup, "g2"} : Connect("B", "f", NoTarget, opt(FALSE, g, 0, 0))
    \/ /\ stack = <<>>
       /\ \E g \in Groups : DisconnectByGroup(g)
    \/ /\ stack = <<>>
       /\ emits < MaxFwdOptEmits
       /\ \E s \in Names : Emit(s, 1)
    \/ ExecuteSlot
    \/ CallbackReturn
    \/ EmitReturn

SpecForwardOptions == Init /\ [][NextForwardOptions]_vars

\* The group map of part_004: connect with and without a group on two
\* identities, and every way of disconnecting
GroupMapConnects ==
    {<<"A", "f", "g1">>, <<"A", "g", "g1">>, <<"A", "f", NoGroup>>,
     <<"B", "f", "g1">>, <<"B", "g", "g2">>}

NextGroupMap ==
    \/ /\ Len(heap) < MaxGroupMapSlots
       /\ \E c \in GroupMapConnects :
             GMapConnect(c[1], c[2], NoTarget, opt(FALSE, c[3], 0, 0))
    \/ \E s \in Names, f \in Funcs : GMapDisconnect(s, f, NoTarget)
    \/ \E r \in DOMAIN conns : GMapConnectionDisconnect(r)
    \/ \E g \in Groups : GMapDisconnectByGroup(g)

SpecGroupMap == Init /\ [][NextGroupMap]_vars

\* The simple class: the callbacks f and g connected to A and B with no
\* target, with and without once, handles released and emit called between
\* emissions
NextSimple ==
    \/ /\ stack = <<>>
       /\ Len(heap) < MaxSimpleSlots
       /\ \E s \in Names, f \in Funcs, o \in DispatchOptions : SimpleConnect(s, f, o)
    \/ /\ stack = <<>>
       /\ \E r \in DOMAIN conns : SimpleConnectionDisconnect(r)
    \/ /\ stack = <<>>
       /\ emits < MaxSimpleEmits
       /\ \E s \in Names : SimpleEmit(s, 1)
    \/ SimpleExecuteSlot
    \/ SimpleCallbackReturn
    \/ SimpleEmitReturn

SpecSimple == Init /\ [][NextSimple]_vars

\* Lock step: the same connect, Connection.disconnect, disconnectById,
\* disconnectByGroup, reset and getAllGroups calls made on both grouped
\* classes, with waits around the life time of the group cache
NextLockstep ==
    \/ /\ Len(heap) < MaxLockSlots
       /\ \E c \in GroupConnects : LockConnect(c[1], "f", opt(FALSE, c[2], 0, 0))
    \/ \E r \in DOMAIN conns : LockConnectionDisconnect(r)
    \/ \E s \in Names, id \in 2..nextId : LockDisconnectById(s, id)
    \/ \E g \in Groups : LockDisconnectByGroup(g)
    \/ LockReset
    \/ LockGetAllGroups
    \/ \E d \in CacheWaits : clock + d <= MaxLockClock /\ Wait(d)

SpecLockstep == Init /\ [][NextLockstep]_vars

\* Cycle: forwarders from A to B, all connected with once, forwarders from B
\* to A with and without once, plain slots on both identities, and emit
\* called between emissions; the call stack is cut at MaxCycleDepth frames
NextCycle ==
    \/ /\ stack = <<>>
       /\ Len(heap) < MaxCycleSlots
       /\ ForwardTo("A", "B", opt(TRUE, NoGroup, 0, 0), "none")
    \/ /\ stack = <<>>
       /\ Len(heap) < MaxCycleSlots
       /\ \E o \in DispatchOptions : ForwardTo("B", "A", o, "none")
    \/ /\ stack = <<>>
       /\ Len(heap) < MaxCycleSlots
       /\ \E s \in Names : Connect(s, "f", NoTarget, opt(FALSE, NoGroup, 0, 0))
    \/ /\ stack = <<>>
       /\ emits < MaxCycleEmits
       /\ \E s \in Names : Emit(s, 1)
    \/ /\ Depth < MaxCycleDepth
       /\ ExecuteSlot
    \/ CallbackReturn
    \/ EmitReturn

SpecCycle == Init /\ [][NextCycle]_vars

\* Demo: the static Signal of qt-signal-group-demo.ts with plain and once
\* connections on one identity, their handles, and emit called between
\* emissions and from inside running callbacks
DemoOptions == {opt(once, NoGroup, 0, 0) : once \in BOOLEAN}

NextDemo ==
    \/ /\ stack = <<>>
       /\ Len(heap) < MaxDemoSlots
       /\ \E o \in DemoOptions : Connect("A", "f", NoTarget, o)
    \/ /\ stack = <<>>
       /\ \E r \in DOMAIN conns : DemoConnectionDisconnect(r)
    \/ /\ emits < MaxDemoEmits
       /\ Depth < MaxDepth
       /\ \E a \in Args : DemoEmit("A", a)
    \/ DemoExecuteSlot
    \/ DemoCallbackReturn
    \/ DemoEmitReturn

SpecDemo == Init /\ [][NextDemo]_vars

\* DemoQueued: the same class with queued and synchronous connections on one
\* identity, one of them once and one in a group; the handles,
\* disconnectByGroup and emit are called between tasks, and the timer host
\* runs the deferred closures
DemoQueuedOptions ==
    {opt(FALSE, NoGroup, 0, 0),
     [opt(FALSE, "g1", 0, 0) EXCEPT !.queued = TRUE],
     [opt(TRUE, NoGroup, 0, 0) EXCEPT !.queued = TRUE]}

NextDemoQueued ==
    \/ /\ stack = <<>>
       /\ Len(heap) < MaxDemoQueuedSlots
       /\ \E o \in DemoQueuedOptions : Connect("A", "f", NoTarget, o)
    \/ /\ stack = <<>>
       /\ \E r \in DOMAIN conns : DemoConnectionDisconnect(r)
    \/ /\ stack = <<>>
       /\ DemoDisconnectByGroup("g1")
    \/ /\ stack = <<>>
       /\ emits < MaxDemoQueuedEmits
       /\ \E a \in Args : DemoEmit("A", a)
    \/ DemoExecuteSlot
    \/ DemoCallbackReturn
    \/ DemoEmitReturn
    \/ RunTask
    \/ DemoTaskReturn

SpecDemoQueued == Init /\ [][NextDemoQueued]_vars

\* DemoTargets: the same class with connect and disconnect called between
\* emissions with every pair of a function and a target, and emit
NextDemoTargets ==
    \/ /\ stack = <<>>
       /\ Len(heap) < MaxDemoTargetSlots
       /\ \E f \in Funcs, t \in Targets : Connect("A", f, t, opt(FALSE, NoGroup, 0, 0))
    \/ /\ stack = <<>>
       /\ \E f \in Funcs, t \in Targets : DemoDisconnect("A", f, t)
    \/ /\ stack = <<>>
       /\ emits < MaxDemoTargetEmits
       /\ \E a \in Args : DemoEmit("A", a)
    \/ DemoExecuteSlot
    \/ DemoCallbackReturn
    \/ DemoEmitReturn

SpecDemoTargets == Init /\ [][NextDemoTargets]_vars

\* Inst: one per-instance Signal with plain, once and queued connections;
\* the handles and disconnect are used from inside running callbacks, emit
\* is called between tasks and from inside running callbacks, and the timer
\* host runs the deferred closures
InstOptions ==
    {[once |-> FALSE, queued |-> FALSE], [once |-> TRUE, queued |-> FALSE],
     [once |-> FALSE, queued |-> TRUE]}

NextInst ==
    \/ /\ stack = <<>>
       /\ Len(heap) < MaxInstSlots
       /\ \E o \in InstOptions : InstConnect("f", NoTarget, o)
    \/ /\ stack # <<>>
       /\ \E r \in DOMAIN conns : InstConnectionDisconnect(r)
    \/ /\ stack # <<>>
       /\ InstDisconnect([type |-> "undefined", val |-> 0])
    \/ /\ emits < MaxInstEmits
       /\ Depth < MaxDepth
       /\ \E a \in Args : InstEmit(a)
    \/ InstExecuteSlot
    \/ InstCallbackReturn
    \/ InstEmitReturn
    \/ InstRunTask
    \/ InstTaskReturn

SpecInst == Init /\ [][NextInst]_vars

\* Async: one per-instance Signal with plain and queued connections, their
\* handles used from inside running callbacks, emitAsync called between
\* tasks, callbacks that return or throw, the timer host and the microtask
\* that settles the returned promise
AsyncOptions == {[once |-> FALSE, queued |-> q] : q \in BOOLEAN}

NextAsync ==
    \/ /\ stack = <<>>
       /\ ~Settling
       /\ Len(heap) < MaxAsyncSlots
       /\ \E o \in AsyncOptions : InstConnect("f", NoTarget, o)
    \/ /\ stack # <<>>
       /\ \E r \in DOMAIN conns : InstConnectionDisconnect(r)
    \/ /\ stack = <<>>
       /\ ~Settling
       /\ Len(calls) < MaxAsyncCalls
       /\ \E a \in Args : InstEmitAsync(a)
    \/ InstExecuteSlot
    \/ InstCallbackReturn
    \/ InstCallbackThrow
    \/ InstEmitReturn
    \/ InstRunTask
    \/ InstTaskReturn
    \/ \E k \in DOMAIN calls : AsyncSettle(k)

\* every timer fires, every running callback ends, every loop goes on and
\* every microtask runs
FairAsync ==
    /\ WF_vars(InstRunTask)
    /\ WF_vars(InstCallbackReturn)
    /\ WF_vars(InstTaskReturn)
    /\ WF_vars(InstExecuteSlot)
    /\ WF_vars(InstEmitReturn)
    /\ \A k \in 1..MaxAsyncCalls : WF_vars(AsyncSettle(k))

SpecAsync == Init /\ [][NextAsync]_vars /\ FairAsync

(* ------------------------------- claims -------------------------------- *)

\* a slot with none of once / queued / throttle / debounce
Plain(slot) ==
    /\ ~slot.once
    /\ ~slot.queued
    /\ slot.throttle = Undefined
    /\ slot.debounce = Undefined

\* a slot whose callback is run by emit itself
Synchronous(slot) == slot.throttle = Undefined /\ slot.debounce = Undefined

\* the elements of a set of slot objects in connection order
RECURSIVE Ascending(_)
Ascending(S) ==
    IF S = {} THEN <<>>
    ELSE LET m == CHOOSE x \in S : \A y \in S : x <= y
         IN  <<m>> \o Ascending(S \ {m})

\* the emit call of frame i has finished its loop and is about to return
Finished(i) ==
    /\ stack[i].kind = "emit"
    /\ stack[i].phase = "loop"
    /\ stack[i].idx > Len(stack[i].snap)

\* the invocations of plain slots made by the loop of frame i itself
OwnPlain(i) ==
    SelectSeq(stack[i].fired, LAMBDA e : e.d = i /\ Plain(heap[e.ref]))

\* C1: when an emit call returns, the callbacks of the plain slots that were
\* connected to the identity when it was called have each been invoked exactly
\* once by it, with the emitted arguments, in connection order
C1_PlainSlotsInOrder ==
    \A i \in 1..Len(stack) :
        Finished(i) =>
            LET expected == Ascending({r \in stack[i].start : Plain(heap[r])})
                own == OwnPlain(i)
            IN  /\ Len(own) = Len(expected)
                /\ \A k \in 1..Len(own) :
                      /\ own[k].ref = expected[k]
                      /\ own[k].args = stack[i].args

\* an emit call that found three plain slots is about to return
C1_Witness ==
    \E i \in 1..Len(stack) :
        /\ Finished(i)
        /\ Cardinality({r \in stack[i].start : Plain(heap[r])}) >= 3

\* C2: after sequential emits (none called while another call was running) a
\* once slot has been invoked exactly once, by the first emit that found it,
\* and is no longer registered; a plain slot has been invoked once per emit
C2_OnceFiresOnce ==
    (stack = <<>> /\ ~reentered) =>
        \A r \in Refs :
            Synchronous(heap[r]) =>
                /\ hist[r].count = hist[r].seen
                /\ heap[r].once =>
                      /\ hist[r].seen <= 1
                      /\ hist[r].seen = 1 => r \notin Registered(signals)

\* two sequential emits: the once slot ran once, the plain slot twice
C2_Witness ==
    /\ stack = <<>>
    /\ ~reentered
    /\ \E r, p \in Refs :
          /\ heap[r].once /\ hist[r].count = 1 /\ r \notin Registered(signals)
          /\ Plain(heap[p]) /\ hist[p].count = 2 /\ p \in Registered(signals)

\* C3: a once slot is invoked at most once in total, also when emit is
\* re-entered from a running callback
C3_OnceAtMostOnce ==
    \A r \in Refs : heap[r].once => hist[r].count <= 1

\* C4: a slot whose handle was disconnected before any emit reached it is not
\* registered and is never invoked; disconnect() on a spent handle changes
\* neither the registration store nor the group index
C4_EarlyRelease ==
    \A r \in Refs :
        hist[r].rel = "early" => hist[r].count = 0 /\ r \notin Registered(signals)

C4_HandleDisconnect ==
    [][/\ C4_EarlyRelease'
       /\ \A r \in DOMAIN conns :
             (~conns[r].connected /\ ConnectionDisconnect(r))
                 => UNCHANGED <<signals, globals>>]_vars

\* a handle was released before any emit, spent, and a later emit on its
\* identity invoked a slot connected after it
C4_Witness ==
    \E r, q \in Refs :
        /\ r < q
        /\ conns[r].signalName = conns[q].signalName
        /\ hist[r].rel = "early"
        /\ ~conns[r].connected
        /\ hist[q].count >= 1

\* the registered slot objects whose group is g
InGroup(sigs, g) == {r \in Registered(sigs) : heap[r].group = g}

\* the state right after disconnectByGroup(g)
GroupGone(g) ==
    /\ InGroup(signals, g) = {}
    /\ ~hasConnectionsInGroup(globals, g)
    /\ getConnectionCountByGroup(globals, g) = 0

\* C5: disconnectByGroup(g) leaves no registration of group g on any identity,
\* hasConnectionsInGroup(g) false and getConnectionCountByGroup(g) 0; a slot
\* that is not registered never becomes registered again, an emit call takes
\* its snapshot among the registered slots and invokes only slots of its
\* snapshot, so no later emit invokes a slot that was in group g
C5_GroupRemoved ==
    [][/\ \A g \in Groups : DisconnectByGroup(g) => GroupGone(g)'
       /\ Registered(signals') \cap Refs \subseteq Registered(signals)
       /\ Len(stack') > Len(stack) => Range(Last(stack').snap) \subseteq Registered(signals)
       /\ \A r \in Refs :
             hist'[r].count > hist[r].count => r = Last(stack').snap[Last(stack').idx]]_vars

\* on one identity a slot of group g1, connected between two slots of other
\* groups, was bulk-disconnected with its handle unused, and a later emit
\* invoked the slot connected after it without finding it
C5_Witness ==
    /\ stack = <<>>
    /\ \E b, a, c \in Refs :
          /\ b < a /\ a < c
          /\ conns[a].signalName = "A" /\ conns[b].signalName = "A"
          /\ conns[c].signalName = "A"
          /\ heap[a].group = "g1" /\ heap[b].group # "g1" /\ heap[c].group # "g1"
          /\ conns[a].connected
          /\ a \notin Registered(signals) /\ b \in Registered(signals)
          /\ hist[a].seen = 0 /\ hist[a].count = 0
          /\ hist[c].count = 1

\* C6: disconnectByGroup(g) keeps, on every identity, exactly the slots whose
\* group is not g, in their order and with their options, and keeps the
\* entries of every other group in the group index and in the per-identity
\* group maps
C6_OtherGroupsKept ==
    [][\A g \in Groups : DisconnectByGroup(g) =>
          /\ \A s \in Names :
                SlotsOf(signals', s) =
                    SelectSeq(SlotsOf(signals, s), LAMBDA r : heap[r].group # g)
          /\ heap' = heap
          /\ \A g2 \in Groups \ {g} :
                /\ g2 \in DOMAIN globals' <=> g2 \in DOMAIN globals
                /\ g2 \in DOMAIN globals => globals'[g2] = globals[g2]
                /\ getConnectionCountByGroup(globals', g2) = getConnectionCountByGroup(globals, g2)
                /\ \A s \in DOMAIN signals' :
                      /\ g2 \in DOMAIN signals'[s].groups <=> g2 \in DOMAIN signals[s].groups
                      /\ g2 \in DOMAIN signals[s].groups =>
                            signals'[s].groups[g2] = signals[s].groups[g2]]_vars

\* three slots on one identity, the middle one in a group that was
\* bulk-disconnected while the other two stayed registered in their order
C6_Witness ==
    \E a, b, c \in Refs :
        /\ a < b /\ b < c
        /\ heap[b].group = "g1" /\ heap[a].group = "g2" /\ heap[c].group = NoGroup
        /\ conns[b].connected
        /\ SlotsOf(signals, "A") = <<a, c>>
        /\ "g1" \notin DOMAIN globals

ThrottleOnly(slot) == slot.throttle # Undefined /\ slot.debounce = Undefined
DebounceOnly(slot) == slot.debounce # Undefined /\ slot.throttle = Undefined

\* the slot that the next ExecuteSlot step passes to executeSlot
Current == Top.snap[Top.idx]

\* the pending timers of slot object r
TimersOf(tm, r) == {t \in tm : t.ref = r}

C8_Debounce ==
    [][/\ (ExecuteSlot /\ DebounceOnly(heap[Current])) =>
             LET r == Current
             IN  /\ hist'[r].count = hist[r].count
                 /\ \E h \in 1..nextTimer :
                       TimersOf(timers', r) =
                           {[h |-> h, ref |-> r, args |-> Top.args,
                             due |-> clock + heap[r].debounce]}
       /\ \A t \in timers :
             (TimerFire(t) /\ DebounceOnly(heap[t.ref])) =>
                 /\ clock = hist[t.ref].deliveredAt + heap[t.ref].debounce
                 /\ t.args = hist[t.ref].deliveredArgs
                 /\ ~hist[t.ref].invokedSince
                 /\ hist'[t.ref].count = hist[t.ref].count + 1
                 /\ TimersOf(timers', t.ref) = {}]_vars

IsForwarder(slot) == slot.callback.fn = Forwarder

\* the plain slots registered on identity s that are not forwarders, in
\* connection order
PlainUserSlots(s) ==
    Ascending({b \in Range(SlotsOf(signals, s)) :
                  Plain(heap[b]) /\ ~IsForwarder(heap[b])})

\* the invocations that a forwarder w, invoked with arguments a, causes on the
\* plain slots of its target
ForwardedCalls(w, a) ==
    LET cb == heap[w].callback
        targets == PlainUserSlots(cb.to)
    IN  [k \in 1..Len(targets) |->
            [ref |-> targets[k], args |-> IF cb.tr = "flip" THEN 3 - a ELSE a,
             via |-> w, d |-> 2]]

\* the invocations of plain slots expected of emit(args) called by application
\* code when the plain slots in refs are connected: a slot's own invocation
\* with args, followed, for a forwarder, by the invocations on its target
RECURSIVE ExpectedCalls(_, _)
ExpectedCalls(refs, a) ==
    IF refs = <<>> THEN <<>>
    ELSE LET r == Head(refs)
             own == <<[ref |-> r, args |-> a, via |-> 0, d |-> 1]>>
         IN  own \o (IF IsForwarder(heap[r]) THEN ForwardedCalls(r, a) ELSE <<>>)
                 \o ExpectedCalls(Tail(refs), a)

\* C9: when emit(A, args), called by application code, returns, every plain
\* slot of A has been invoked once with args and, for every forwarder A -> B
\* connected without options, every plain slot of B has been invoked once with
\* args, or with the transformed args when the forwarder has a transform, all
\* in connection order
C9_Forwarding ==
    (Len(stack) = 1 /\ Finished(1) /\ stack[1].via = 0) =>
        SelectSeq(stack[1].fired, LAMBDA e : Plain(heap[e.ref]))
            = ExpectedCalls(Ascending({r \in stack[1].start : Plain(heap[r])}),
                            stack[1].args)

\* emit(A, args) returns after a plain slot of A, a transforming forwarder and
\* a plain slot of B were invoked
C9_Witness ==
    /\ Len(stack) = 1 /\ Finished(1) /\ stack[1].sig = "A"
    /\ \E a, w, b \in Refs :
          /\ Plain(heap[a]) /\ ~IsForwarder(heap[a]) /\ a \in stack[1].start
          /\ IsForwarder(heap[w]) /\ heap[w].callback.tr = "flip" /\ w \in stack[1].start
          /\ Plain(heap[b]) /\ conns[b].signalName = "B"
          /\ \E k \in 1..Len(stack[1].fired) :
                stack[1].fired[k] = [ref |-> b, args |-> 3 - stack[1].args,
                                     via |-> w, d |-> 2]

\* C10: disconnect() on the live handle of a registered forwarder removes the
\* forwarder from its source identity and nothing else, and no emission made
\* through a forwarder whose handle is spent invokes a slot
C10_ForwardRelease ==
    [][/\ \A w \in DOMAIN conns :
             (/\ IsForwarder(heap[w])
              /\ conns[w].connected
              /\ w \in Registered(signals)
              /\ ConnectionDisconnect(w)) =>
                 /\ \A s \in Names :
                       SlotsOf(signals', s) =
                           SelectSeq(SlotsOf(signals, s), LAMBDA r : r # w)
                 /\ globals' = globals
       /\ \A i \in 1..Len(stack') : \A k \in 1..Len(stack'[i].fired) :
             LET e == stack'[i].fired[k]
             IN  e.via # 0 => conns'[e.via].connected]_vars

\* the handle of a forwarder is spent, and a later emit on the source found
\* the slot of A connected before the forwarder and invoked it only
C10_Witness ==
    /\ Len(stack) = 1 /\ Finished(1) /\ stack[1].sig = "A"
    /\ \E a, w, b \in Refs :
          /\ a < w
          /\ IsForwarder(heap[w]) /\ ~conns[w].connected /\ hist[w].count = 1
          /\ Plain(heap[a]) /\ conns[a].signalName = "A" /\ hist[a].count = 2
          /\ Plain(heap[b]) /\ conns[b].signalName = "B" /\ hist[b].count = 1
          /\ b \in Registered(signals)
          /\ stack[1].fired = <<[ref |-> a, args |-> stack[1].args, via |-> 0, d |-> 1]>>


\* the invocations made by the loop of frame i itself
Own(i) == SelectSeq(stack[i].fired, LAMBDA e : e.d = i)

\* C11: an error thrown by the callback of a synchronously executed slot
\* never reaches the caller of emit, is reported exactly once, and every slot
\* of the emission is still invoked with the emitted arguments
C11_ErrorIsolation ==
    /\ thrown = 0
    /\ \A r \in Refs : hist[r].reported = hist[r].threw
    /\ \A i \in 1..Len(stack) :
          Finished(i) =>
              LET expected == Ascending(stack[i].start)
                  own == Own(i)
              IN  /\ Len(own) = Len(expected)
                  /\ \A k \in 1..Len(own) :
                        /\ own[k].ref = expected[k]
                        /\ own[k].args = stack[i].args

\* C12: a slot connected to an identity while an emit call on that identity is
\* running is not invoked by that call; like every plain slot it is invoked
\* once by each emit call made while it is registered, the next one first
C12_NewSlotWaits ==
    /\ \A i \in 1..Len(stack) :
          stack[i].kind = "emit" =>
              \A k \in 1..Len(Own(i)) : Own(i)[k].ref \in stack[i].start
    /\ \A r \in Refs :
          Plain(heap[r]) =>
              /\ hist[r].count <= hist[r].seen
              /\ stack = <<>> => hist[r].count = hist[r].seen

\* an emit call is about to return without having invoked a slot that a
\* callback connected while it ran; the next emit call, made by a callback,
\* has invoked that slot
C12_Witness ==
    /\ Len(stack) = 1
    /\ Finished(1)
    /\ \E r \in Refs :
          /\ r \notin stack[1].start
          /\ r \in Range(SlotsOf(signals, stack[1].sig))
          /\ \A k \in 1..Len(Own(1)) : Own(1)[k].ref # r
          /\ hist[r].seen = 1
          /\ hist[r].count = 1

\* C13: a slot that a callback disconnected during an emit call, before its
\* turn in that call, is not invoked by that call: the loop of emit invokes a
\* slot (one that is not removed as a once slot by a nested call) only while
\* it is registered
C13_DisconnectedSkipped ==
    [][\A r \in Refs :
          (/\ hist'[r].count > hist[r].count
           /\ stack # <<>>
           /\ Top.kind = "emit"
           /\ ~heap[r].once)
              => r \in Registered(signals)]_vars

\* C14: disconnect(identity, callback, target) removes exactly the
\* registrations on identity whose stored callback equals callback and, when
\* a target is given, whose target equals target; a registration with a
\* different callback stays registered, also when it shares the target
C14_DisconnectExact ==
    [][\A f \in Funcs, t \in Targets :
          Disconnect("A", f, t) =>
              /\ SlotsOf(signals', "A") =
                    SelectSeq(SlotsOf(signals, "A"),
                              LAMBDA r : ~(/\ heap[r].callback = userFunc(f)
                                          /\ TruthyStr(t) => heap[r].target = t))
              /\ \A r \in Range(SlotsOf(signals, "A")) :
                    heap[r].callback.fn # f => r \in Range(SlotsOf(signals', "A"))]_vars

\* the per-identity group map of identity s
GroupsOf(sigs, s) == IF s \in DOMAIN sigs THEN sigs[s].groups ELSE EmptyMap

\* the step keeps every registration, its slot object and every entry of the
\* group index and of the per-identity group maps, and throws nothing
SameRegistrations ==
    /\ thrown' = thrown
    /\ heap' = heap
    /\ globals' = globals
    /\ \A s \in Names :
          /\ SlotsOf(signals', s) = SlotsOf(signals, s)
          /\ GroupsOf(signals', s) = GroupsOf(signals, s)

\* C15: disconnect and disconnectById with an identity that has no
\* registration or an id that is not registered, and disconnectByGroup with a
\* group name that no registration has, throw nothing and keep every
\* registration and every group-index entry
C15_UnknownIsNoOp ==
    [][/\ \A s \in Names :
             (Disconnect(s, "f", NoTarget) /\ SlotsOf(signals, s) = <<>>)
                 => SameRegistrations
       /\ \A s \in Names, id \in 2..(nextId + 1) :
             (/\ DisconnectById(s, id)
              /\ \A r \in Range(SlotsOf(signals, s)) : heap[r].id # id)
                 => SameRegistrations
       /\ \A g \in Groups :
             (DisconnectByGroup(g) /\ InGroup(signals, g) = {})
                 => SameRegistrations]_vars

\* disconnectById was called with an identity that has no registration
\* while another identity holds a grouped registration, which is still there
C15_Witness ==
    /\ "B" \in DOMAIN signals
    /\ signals["B"].slots = <<>>
    /\ \E r \in Range(SlotsOf(signals, "A")) :
          /\ heap[r].group = "g1"
          /\ [signalName |-> "A", slotId |-> heap[r].id] \in globals["g1"]

\* C16: connect with an empty identity or with a callback that is not a
\* function, and disconnectByGroup with an empty group name, throw to the
\* caller and leave the registration store, the group index and the id
\* counter as they were
C16_InvalidArguments ==
    [][/\ \A c \in CallConnects :
             (/\ Connect(c[1], c[2], NoTarget, opt(FALSE, c[3], 0, 0))
              /\ (c[1] = "" \/ c[2] = NotAFunction))
                 => /\ thrown' = thrown + 1
                    /\ UNCHANGED <<signals, globals, nextId, heap, conns>>
       /\ DisconnectByGroup("")
             => /\ thrown' = thrown + 1
                /\ UNCHANGED <<signals, globals, nextId, heap, conns>>]_vars

\* two calls have thrown between two connects that got consecutive ids
C16_Witness ==
    /\ thrown = 2
    /\ Len(heap) = 2
    /\ heap[1].id = 2 /\ heap[2].id = 3
    /\ nextId = 3
    /\ Len(SlotsOf(signals, "A")) = 2

\* C17: no two connect calls return the same registration id, and ids
\* increase in connect order, whatever connect, disconnect, emit and reset
\* calls are made
C17_IdsNeverReused ==
    \A r, q \in Refs : r < q => heap[r].id < heap[q].id

\* C18: connected is true until the handle's own disconnect() is called and
\* false from then on, whatever else removes the registration; disconnect()
\* on a handle whose registration is gone throws nothing and removes no
\* registration that is in the store
C18_HandleState ==
    [][\A r \in DOMAIN conns :
          /\ conns'[r].connected # conns[r].connected
                => (conns[r].connected /\ ConnectionDisconnect(r))
          /\ ConnectionDisconnect(r) => ~conns'[r].connected
          /\ (ConnectionDisconnect(r) /\ r \notin Registered(signals))
                => /\ Registered(signals') = Registered(signals)
                   /\ thrown' = thrown]_vars

\* C19: at any time getAllGroups() returns exactly the group names that have
\* at least one registration
C19_GroupsExact ==
    getAllGroups(store, clock).result = {g \in Groups : InGroup(signals, g) # {}}

\* a valid cache filled after a wait holds one group while a registration
\* of the other group was removed earlier
C19_Witness ==
    /\ groupCache.defined
    /\ groupCache.lastUpdateTime > 0
    /\ clock - groupCache.lastUpdateTime < CACHE_TTL
    /\ groupCache.groups = {"g2"}
    /\ \E r \in Refs : heap[r].group = "g1" /\ r \notin Registered(signals)

\* C20: a slot connected with queued:true is not invoked before the emit
\* call that triggers it has returned: no running emit call has invoked a
\* queued slot
C20_QueuedIsDeferred ==
    \A i \in 1..Len(stack) :
        stack[i].kind = "emit" =>
            \A k \in 1..Len(stack[i].fired) : ~heap[stack[i].fired[k].ref].queued

\* C23: the registration store holds an entry for an identity exactly when the
\* identity has a registration; no entry with an empty slot sequence remains
C23_NoEmptyEntries ==
    \A s \in DOMAIN signals : signals[s].slots # <<>>

\* C24: disconnecting a debounced slot cancels its pending timer, so that the
\* timer host never runs the timer of a slot that is not registered
C24_DisconnectCancels ==
    [][\A t \in timers : TimerFire(t) => t.ref \in Registered(signals)]_vars

\* C25: for a slot with throttle and debounce, every emit that reaches it
\* cancels the pending timer and schedules the callback one debounce delay
\* later with the arguments of that emit
C25_DebounceFirst ==
    [][(/\ ExecuteSlot
        /\ TruthyNum(heap[Current].throttle)
        /\ TruthyNum(heap[Current].debounce))
           => {<<t.args, t.due>> : t \in TimersOf(timers', Current)} =
                  {<<Top.args, clock + heap[Current].debounce>>}]_vars

\* C26: in the demo class a slot connected with once:true is invoked at most
\* once in total, also when an earlier slot of the identity calls emit on the
\* identity during the emission
C26_OnceAtMostOnce ==
    \A r \in Refs : heap[r].once => hist[r].count <= 1

\* the closures of the emit call numbered em that wait for their turn
PendingOf(q, em) == SelectSeq(q, LAMBDA t : t.em = em)

TasksOf(q, r) == SelectSeq(q, LAMBDA t : t.ref = r)

C30_DisconnectUndoesConnect ==
    \A f \in Funcs :
        LET S == demo_disconnect(store, heap, "A", userFunc(f), "t")
        IN  \A r \in Registered(S.signals) :
               ~(heap[r].callback.fn = f /\ heap[r].target = "t")

\* C27: in the per-instance class the loop of emit invokes or schedules a
\* slot of its snapshot only if the slot is registered when its turn comes,
\* and the callback of a once slot is invoked at most once in total
C27_RegisteredAtTurn ==
    [][/\ InstExecuteSlot =>
             LET r == Top.snap[Top.idx]
             IN  (hist'[r].count # hist[r].count \/ tasks' # tasks)
                     => r \in Registered(signals)
       /\ \A r \in DOMAIN heap' :
             heap'[r].once => hist'[r].count <= 1]_vars

\* a pass went by a slot without invoking it because an earlier slot of the
\* pass disconnected it, and went by a once slot that a nested emit had
\* already invoked
C27_Witness ==
    /\ Depth = 1
    /\ Top.kind = "inst"
    /\ Top.idx > Len(Top.snap)
    /\ \E r \in Top.start :
          /\ ~heap[r].queued
          /\ ~heap[r].once
          /\ hist[r].count = 0
    /\ \E r \in Top.start :
          /\ heap[r].once
          /\ hist[r].count = 1
          /\ \A k \in DOMAIN Top.fired : Top.fired[k].ref = r => Top.fired[k].d = 2

\* the slot promises of an emitAsync call belong to the slots of its snapshot
\* that were registered at their turn, and each callback ran once with args
AllInvoked(c) ==
    /\ {c.slots[j].ref : j \in DOMAIN c.slots} = Range(c.snap) \ c.skipped
    /\ \A j \in DOMAIN c.slots : c.slots[j].ran = 1 /\ c.slots[j].got = c.args

\* C21: the promise returned by emitAsync(args) is resolved only when every
\* slot that was registered at its turn has been invoked exactly once with
\* args, queued slots included; and when every timer fires and every callback
\* ends, the promise is eventually resolved
C21_ResolvesAfterAllSlots ==
    /\ [](\A k \in DOMAIN calls :
             calls[k].state = "resolved" => AllInvoked(calls[k]))
    /\ \A k \in 1..MaxAsyncCalls :
          (Len(calls) >= k) ~> (Len(calls) >= k /\ calls[k].state = "resolved")

\* a promise is resolved after a queued slot ran on a later turn, while a
\* slot of the snapshot that a callback disconnected was passed over
C21_Witness ==
    \E k \in DOMAIN calls :
        /\ calls[k].state = "resolved"
        /\ calls[k].skipped # {}
        /\ \E j \in DOMAIN calls[k].slots :
              heap[calls[k].slots[j].ref].queued /\ calls[k].slots[j].ran = 1

\* C22: when callbacks throw during emitAsync, run by the loop or by a timer,
\* the returned promise is never rejected, it is resolved only when every
\* slot registered at its turn has been invoked, and it is eventually
\* resolved
C22_ErrorsDoNotReject ==
    /\ [](\A k \in DOMAIN calls :
             /\ calls[k].state # "rejected"
             /\ \A j \in DOMAIN calls[k].slots : calls[k].slots[j].state # "rejected"
             /\ (calls[k].state = "resolved" /\ calls[k].threw > 0)
                    => \A j \in DOMAIN calls[k].slots : calls[k].slots[j].ran = 1)
    /\ \A k \in 1..MaxAsyncCalls :
          (Len(calls) >= k /\ calls[k].threw > 0)
              ~> (Len(calls) >= k /\ calls[k].state = "resolved")

\* a promise is resolved although a callback run by the loop and a callback
\* run by a timer both threw, and a third slot was invoked
C22_Witness ==
    \E k \in DOMAIN calls :
        /\ calls[k].state = "resolved"
        /\ calls[k].threw = 2
        /\ Len(calls[k].slots) = 3
        /\ \E i, j \in DOMAIN calls[k].slots :
              /\ heap[calls[k].slots[i].ref].queued
              /\ hist[calls[k].slots[i].ref].threw > 0
              /\ ~heap[calls[k].slots[j].ref].queued
              /\ hist[calls[k].slots[j].ref].threw > 0

\* the three descriptions of "the registration with id i on identity s has
\* group g": the global index, the per-identity group map, the stored slot
InGlobalIndex(s, i, g) ==
    g \in DOMAIN globals /\ [signalName |-> s, slotId |-> i] \in globals[g]

InSignalGroups(s, i, g) ==
    g \in DOMAIN GroupsOf(signals, s) /\ i \in GroupsOf(signals, s)[g]

StoredWithGroup(s, i, g) ==
    \E r \in Range(SlotsOf(signals, s)) : heap[r].id = i /\ heap[r].group = g

\* C35: the global group index, the per-identity group maps and the group
\* fields of the stored registrations describe the same relation, no group
\* entry is empty and no registration appears under two groups
C35_GroupIndexesAgree ==
    /\ \A s \in Names, i \in 1..(Len(heap) + 1), g \in Groups :
          /\ InGlobalIndex(s, i, g) <=> InSignalGroups(s, i, g)
          /\ InSignalGroups(s, i, g) <=> StoredWithGroup(s, i, g)
    /\ DOMAIN globals \subseteq Groups
    /\ \A g \in DOMAIN globals :
          /\ globals[g] # {}
          /\ \A p \in globals[g] : p.signalName \in Names /\ p.slotId \in 1..(Len(heap) + 1)
    /\ \A s \in Names :
          /\ DOMAIN GroupsOf(signals, s) \subseteq Groups
          /\ \A g \in DOMAIN GroupsOf(signals, s) : GroupsOf(signals, s)[g] # {}
    /\ \A s \in Names, i \in 1..(Len(heap) + 1) :
          Cardinality({g \in Groups : InGlobalIndex(s, i, g)}) <= 1

\* on one identity a registration of a group was removed while another one
\* of the same group and one without a group stayed
C35_Witness ==
    \E a, b, c \in Refs :
        /\ heap[a].group = "g1" /\ a \notin Registered(signals)
        /\ heap[b].group = "g1" /\ b \in Range(SlotsOf(signals, "A"))
        /\ InGlobalIndex("A", heap[b].id, "g1")
        /\ heap[c].group = NoGroup /\ c \in Range(SlotsOf(signals, "A"))
        /\ conns[a].signalName = "A"

\* C34: an error thrown by the callback of a debounced slot when its timer
\* fires does not reach the timer host and is reported, and once the timer
\* closure has ended and no timer of the slot is pending, the slot's
\* timeoutId is cleared
C34_TimerErrorCaught ==
    /\ thrown = 0
    /\ \A r \in Refs :
          /\ stack = <<>> => hist[r].reported = hist[r].threw
          /\ (stack = <<>> /\ TimersOf(timers, r) = {}) => heap[r].timeoutId = Undefined

\* C40: at every moment each debounced registration has at most one pending
\* timer
C40_OnePendingTimer ==
    \A r \in Refs : Cardinality(TimersOf(timers, r)) <= 1

\* C36: disconnect() on a handle removes at most the registration that the
\* handle was created for, also when reset was called and slots were
\* connected after it
C36_HandleRemovesOwn ==
    [][\A r \in DOMAIN conns :
          ConnectionDisconnect(r) =>
              Registered(signals) \ Registered(signals') \subseteq {r}]_vars

\* C37: when every forwarding cycle between A and B holds a forwarder
\* connected with once, emit returns after finitely many invocations: the
\* recursion passes the once forwarder in every round, so it ends unless the
\* once forwarder is invoked again while it is still running
C37_CycleEnds ==
    \A i, j \in DOMAIN stack :
        (/\ i < j
         /\ stack[i].phase = "fwd"
         /\ stack[j].phase = "fwd"
         /\ stack[i].cur = stack[j].cur)
            => ~heap[stack[i].cur].once

\* C33: a forwarder obeys its options. forwardTo registers the forwarder with
\* the once flag and the group it was given. An emission of B is started by
\* a forwarder only while the forwarder is registered, and by a once
\* forwarder only at its first invocation; between emissions a once forwarder
\* that an emit found is unregistered, so the slots of B are invoked for the
\* first emit of A only. disconnectByGroup(g) unregisters exactly the slots
\* of group g: the forwarders of group g stop forwarding and the slots of B
\* that are not in group g stay connected
C33_ForwarderObeysOptions ==
    [][/\ \A o \in ForwardOptions :
             ForwardTo("A", "B", o, "none") =>
                 LET w == Len(heap')
                 IN  /\ w \in Registered(signals')
                     /\ heap'[w].once = o.once
                     /\ heap'[w].group = o.group
       /\ (Len(stack') > Len(stack) /\ Last(stack').via # 0) =>
             LET w == Last(stack').via
             IN  /\ IsForwarder(heap[w])
                 /\ w \in Registered(signals)
                 /\ heap[w].once => hist[w].count = 0 /\ hist'[w].count = 1
       /\ stack' = <<>> =>
             \A w \in DOMAIN heap' :
                 (IsForwarder(heap'[w]) /\ heap'[w].once /\ hist'[w].seen > 0) =>
                     w \notin Registered(signals')
       /\ \A g \in Groups :
             DisconnectByGroup(g) =>
                 Registered(signals') =
                     {r \in Registered(signals) : heap[r].group # g}]_vars

\* a once forwarder and a forwarder of group g1 each forwarded the first emit
\* of A to the slot of B; the once forwarder was removed by that emit and the
\* other by disconnectByGroup(g1); the second emit of A reached no slot of B,
\* and the slot of B, still registered, was invoked by an emit of B
C33_Witness ==
    /\ stack = <<>>
    /\ emits = 3
    /\ \E w, v, p \in Refs :
          /\ IsForwarder(heap[w]) /\ heap[w].once /\ heap[w].group = NoGroup
          /\ IsForwarder(heap[v]) /\ ~heap[v].once /\ heap[v].group = "g1"
          /\ ~IsForwarder(heap[p]) /\ conns[p].signalName = "B"
          /\ hist[w].count = 1 /\ hist[w].seen = 1
          /\ hist[v].count = 1 /\ hist[v].seen = 1
          /\ w \notin Registered(signals) /\ v \notin Registered(signals)
          /\ p \in Registered(signals)
          /\ hist[p].count = 3
          /\ SlotsOf(signals, "A") = <<>>

\* C39: the slot sequence of every identity is strictly increasing in
\* registration id and holds the surviving slot objects in the order of
\* their connection (a reference is the rank of its connect call)
C39_SlotsInConnectionOrder ==
    \A s \in Names :
        LET slots == SlotsOf(signals, s)
        IN  \A i, j \in 1..Len(slots) :
                i < j => /\ heap[slots[i]].id < heap[slots[j]].id
                         /\ slots[i] < slots[j]

\* of three slots connected to A the second was taken out; the first and the
\* third survive in their order
C39_Witness ==
    /\ Len(heap) = 3
    /\ \A r \in Refs : conns[r].signalName = "A"
    /\ SlotsOf(signals, "A") = <<1, 3>>

\* C31: in part_004 the group index follows every removal: for every group g
\* getConnectionCountByGroup(g) is the number of registered slots of group g,
\* and disconnectByGroup(g) called now leaves hasConnectionsInGroup(g) false
C31_DisconnectCleansGroups ==
    \A g \in Groups :
        /\ gmap_getConnectionCountByGroup(globals, g) =
               Cardinality({r \in Registered(signals) : heap[r].group = g})
        /\ ~gmap_hasConnectionsInGroup(gmap_disconnectByGroup(store, heap, g).globals, g)

\* C32: in the simple class the release of a handle takes out of the store
\* the registration of that handle and no other, and a turn of the emit loop
\* takes out the once slot it is about to call and no other
C32_RemovesExactlyOne ==
    [][/\ \A r \in DOMAIN conns :
             SimpleConnectionDisconnect(r) =>
                 Registered(signals') = Registered(signals) \ {r}
       /\ SimpleExecuteSlot =>
             Registered(signals') =
                 Registered(signals) \ {x \in {Top.snap[Top.idx]} : heap[x].once}]_vars

====
